---- MODULE Spec2Model ----
(***************************************************************************)
(* Subscription-state reconciliation of scripture-chat: the User model's   *)
(* entitlement fields (backend/models/User.js) and the Stripe webhook      *)
(* route with its five event handlers (the /api/stripe router).            *)
(***************************************************************************)
EXTENDS Integers, Sequences, FiniteSets, TLC

(***************************************************************************)
(* Bounds of the model.                                                    *)
(***************************************************************************)
\* Unix timestamps (seconds) a subscription's current_period_end is drawn from.
MaxPeriodEnd == 2

\* The clock runs from 0 to MaxNow, in ticks of which TicksPerDay make a
\* calendar day.
MaxNow == 3
TicksPerDay == 2

\* The most chats stored, messages in one chat, and questions one user has
\* recorded over the lifetime.
MaxChats == 2
MaxMessages == 3
MaxQuestions == 3

\* The largest daily count a user document is given when the quota
\* functions are applied to arbitrary documents.
MaxQuestionsToday == 6

\* The most chunks the language model streams for one completion, and the
\* pieces a line of the event stream is cut into where a network read can end.
MaxChunks == 2
LineParts == 2

\* The largest value FREE_TIER_DAILY_LIMIT is configured with.
MaxDailyLimit == 1

\* The most create-checkout-session requests handled step by step.
MaxRequests == 2

(***************************************************************************)
(* The universe: the users of the store and the objects of the provider.   *)
(***************************************************************************)
\* JavaScript null / undefined for a string-valued field.
Null == "null"

\* A Date field that is not set, and the Date for a number of milliseconds.
NoDate == {}
NewDate(ms) == {ms}

\* The documents of the User collection, in the store's natural order.
UserOrder == <<"u1", "u2">>
Users == {UserOrder[i] : i \in 1..Len(UserOrder)}

\* A well-formed id that is the _id of no stored user.
UnknownUserId == "u0"

\* The provider's customers, and the metadata.userId each one carries
\* (create-checkout-session creates a customer with the caller's id in it;
\* a customer created outside the application carries none).
Customers == {"cus_1", "cus_2", "cus_9"}
customerMetadataUserId(c) ==
  CASE c = "cus_1" -> "u1"
    [] c = "cus_2" -> "u2"
    [] OTHER -> Null

\* The provider's subscriptions and the customer each belongs to.
Subscriptions == {"sub_1", "sub_1b", "sub_2", "sub_9"}
subscriptionCustomer(s) ==
  CASE s = "sub_1" -> "cus_1"
    [] s = "sub_1b" -> "cus_1"
    [] s = "sub_2" -> "cus_2"
    [] OTHER -> "cus_9"

\* The values of a provider subscription's status the events carry.
SubscriptionStatuses == {"active", "trialing", "canceled", "past_due"}

\* The values of a checkout session's payment_status.
PaymentStatuses == {"paid", "unpaid", "no_payment_required"}

\* metadata.userId of a session or subscription of customer c: absent, the
\* id the application put there, or an id that is no user's.
MetadataUserIds(c) ==
  {Null, UnknownUserId} \cup ({customerMetadataUserId(c)} \ {Null})

(***************************************************************************)
(* The events of the provider (event.type and the fields of                *)
(* event.data.object the handlers read).                                   *)
(***************************************************************************)
CheckoutEvents ==
  {[type |-> "checkout.session.completed", userId |-> m, customer |-> c,
    subscription |-> s, payment_status |-> p] :
      <<c, m, s, p>> \in
        {x \in Customers \X {Null, UnknownUserId, "u1", "u2"}
                 \X (Subscriptions \cup {Null}) \X PaymentStatuses :
            /\ x[2] \in MetadataUserIds(x[1])
            /\ x[3] # Null => subscriptionCustomer(x[3]) = x[1]}}

SubscriptionEvents ==
  {[type |-> t, id |-> s, userId |-> m, customer |-> subscriptionCustomer(s),
    status |-> st, current_period_end |-> pe] :
      <<t, s, m, st, pe>> \in
        {x \in {"customer.subscription.created", "customer.subscription.updated"}
                 \X Subscriptions \X {Null, UnknownUserId, "u1", "u2"}
                 \X SubscriptionStatuses \X (1..MaxPeriodEnd) :
            x[3] \in MetadataUserIds(subscriptionCustomer(x[2]))}}

DeletedEvents ==
  {[type |-> "customer.subscription.deleted", id |-> s] : s \in Subscriptions}

InvoiceEvents ==
  {[type |-> t, subscription |-> s] :
      t \in {"invoice.payment_succeeded", "invoice.payment_failed"},
      s \in Subscriptions \cup {Null}}

\* Events of types the route's switch has no case for.
UnsupportedEvents ==
  {[type |-> t] : t \in {"customer.created", "invoice.finalized"}}

Events ==
  CheckoutEvents \cup SubscriptionEvents \cup DeletedEvents \cup InvoiceEvents
    \cup UnsupportedEvents

\* How a request can fail: no failure, a call of the user store rejects,
\* a call of the billing provider rejects, stripe.customers.retrieve rejects
\* (the one provider call whose rejection a route catches and survives),
\* the call of the language model rejects, stripe.checkout.sessions.create
\* rejects.
Faults == {"none", "db", "provider", "retrieve", "openai", "sessions"}

(***************************************************************************)
(* The User model.                                                         *)
(***************************************************************************)
\* A new user document: the schema's defaults.
NewUser ==
  [status |-> "free", stripeCustomerId |-> Null, stripeSubscriptionId |-> Null,
   currentPeriodEnd |-> NoDate, questionsToday |-> 0, lastQuestionDate |-> NoDate,
   totalQuestions |-> 0, isActive |-> TRUE]

\* JavaScript truthiness of an id (a string or null) and of an optional number.
TruthyId(x) == x # Null
TruthyNumber(n) == n # {} /\ n # {0}

\* updateSubscription that never stores the customer id.
updateSubscriptionDroppingCustomer(user, status, stripeData) ==
  [user EXCEPT
     !.status = status,
     !.stripeSubscriptionId =
        IF TruthyId(stripeData.subscriptionId) THEN stripeData.subscriptionId ELSE @,
     !.currentPeriodEnd =
        IF TruthyNumber(stripeData.currentPeriodEnd)
        THEN NewDate((CHOOSE n \in stripeData.currentPeriodEnd : TRUE) * 1000)
        ELSE @]

\* updateSubscription that extends the stored period end by the supplied
\* one instead of overwriting it.
updateSubscriptionAccumulating(user, status, stripeData) ==
  [user EXCEPT
     !.status = status,
     !.stripeCustomerId =
        IF TruthyId(stripeData.customerId) THEN stripeData.customerId ELSE @,
     !.stripeSubscriptionId =
        IF TruthyId(stripeData.subscriptionId) THEN stripeData.subscriptionId ELSE @,
     !.currentPeriodEnd =
        IF TruthyNumber(stripeData.currentPeriodEnd)
        THEN NewDate((IF @ = NoDate THEN 0 ELSE CHOOSE ms \in @ : TRUE)
                     + (CHOOSE n \in stripeData.currentPeriodEnd : TRUE) * 1000)
        ELSE @]

\* updateSubscription that replaces all three fields by what it is given,
\* supplied or not.
updateSubscriptionReplacing(user, status, stripeData) ==
  [user EXCEPT
     !.status = status,
     !.stripeCustomerId = stripeData.customerId,
     !.stripeSubscriptionId = stripeData.subscriptionId,
     !.currentPeriodEnd =
        IF TruthyNumber(stripeData.currentPeriodEnd)
        THEN NewDate((CHOOSE n \in stripeData.currentPeriodEnd : TRUE) * 1000)
        ELSE NoDate]

\* user.updateSubscription(status, stripeData)
updateSubscription(user, status, stripeData) ==
  [user EXCEPT
     !.status = status,
     !.stripeCustomerId =
        IF TruthyId(stripeData.customerId) THEN stripeData.customerId ELSE @,
     !.stripeSubscriptionId =
        IF TruthyId(stripeData.subscriptionId) THEN stripeData.subscriptionId ELSE @,
     !.currentPeriodEnd =
        IF TruthyNumber(stripeData.currentPeriodEnd)
        THEN NewDate((CHOOSE n \in stripeData.currentPeriodEnd : TRUE) * 1000)
        ELSE @]

\* The time of a Date that is set.
getTime(date) == CHOOSE t \in date : TRUE

\* The calendar day a time falls on.
dayOf(t) == t \div TicksPerDay

\* isSameDay(date1, date2): same year, month and day of month.
isSameDay(date1, date2) == dayOf(getTime(date1)) = dayOf(getTime(date2))

\* getNextMidnight(), called at time now: 00:00 of the next day.
getNextMidnight(now) == NewDate((dayOf(now) + 1) * TicksPerDay)

\* An environment variable that is not set, and the values
\* FREE_TIER_DAILY_LIMIT can be given.
NotSet == {}
DailyLimits == {NotSet} \cup {{n} : n \in 0..MaxDailyLimit}

\* const FREE_TIER_LIMIT = parseInt(env) || 5, for the value env of
\* FREE_TIER_DAILY_LIMIT.
FREE_TIER_LIMIT(env) == IF TruthyNumber(env) THEN CHOOSE n \in env : TRUE ELSE 5

\* A remaining count: a number, or JavaScript's Infinity.
Finite(n) == [finite |-> TRUE, n |-> n]
Infinity == [finite |-> FALSE]

\* canAskQuestion that applies the daily allowance to premium users too.
canAskQuestionMeteringPremium(user, now, env) ==
  IF user.lastQuestionDate = NoDate \/ ~isSameDay(user.lastQuestionDate, NewDate(now))
  THEN [canAsk |-> TRUE, remaining |-> Finite(FREE_TIER_LIMIT(env)),
        resetTime |-> getNextMidnight(now)]
  ELSE LET remaining == IF FREE_TIER_LIMIT(env) - user.questionsToday > 0
                        THEN FREE_TIER_LIMIT(env) - user.questionsToday ELSE 0
       IN [canAsk |-> remaining > 0, remaining |-> Finite(remaining),
           resetTime |-> getNextMidnight(now)]

\* canAskQuestion that counts against the allowance whatever day the count
\* is of.
canAskQuestionWithoutReset(user, now, env) ==
  IF user.status = "premium"
  THEN [canAsk |-> TRUE, remaining |-> Infinity, resetTime |-> NoDate]
  ELSE LET remaining == IF FREE_TIER_LIMIT(env) - user.questionsToday > 0
                        THEN FREE_TIER_LIMIT(env) - user.questionsToday ELSE 0
       IN [canAsk |-> remaining > 0, remaining |-> Finite(remaining),
           resetTime |-> getNextMidnight(now)]

\* user.canAskQuestion(), called at time now with FREE_TIER_DAILY_LIMIT = env.
canAskQuestion(user, now, env) ==
  IF user.status = "premium"
  THEN [canAsk |-> TRUE, remaining |-> Infinity, resetTime |-> NoDate]
  ELSE IF user.lastQuestionDate = NoDate \/ ~isSameDay(user.lastQuestionDate, NewDate(now))
  THEN [canAsk |-> TRUE, remaining |-> Finite(FREE_TIER_LIMIT(env)),
        resetTime |-> getNextMidnight(now)]
  ELSE LET remaining == IF FREE_TIER_LIMIT(env) - user.questionsToday > 0
                        THEN FREE_TIER_LIMIT(env) - user.questionsToday ELSE 0
       IN [canAsk |-> remaining > 0, remaining |-> Finite(remaining),
           resetTime |-> getNextMidnight(now)]

\* incrementQuestionCount that never starts a new window.
incrementQuestionCountWithoutReset(user, now) ==
  [user EXCEPT
     !.questionsToday = @ + 1,
     !.lastQuestionDate = NewDate(now),
     !.totalQuestions = @ + 1]

\* user.incrementQuestionCount(), called at time now.
incrementQuestionCount(user, now) ==
  [user EXCEPT
     !.questionsToday =
        IF user.lastQuestionDate = NoDate \/ ~isSameDay(user.lastQuestionDate, NewDate(now))
        THEN 1 ELSE @ + 1,
     !.lastQuestionDate = NewDate(now),
     !.totalQuestions = @ + 1]

\* User.findById(id): the user with that _id, or null.
findById(us, id) == IF id \in Users THEN id ELSE Null

RECURSIVE firstMatch(_, _, _, _)
firstMatch(us, field, value, i) ==
  IF i > Len(UserOrder) THEN Null
  ELSE IF us[UserOrder[i]][field] = value THEN UserOrder[i]
  ELSE firstMatch(us, field, value, i + 1)

\* findOne that gives the first document when nothing matches.
findOneOrFirst(us, field, value) ==
  IF firstMatch(us, field, value, 1) = Null
  THEN UserOrder[1]
  ELSE firstMatch(us, field, value, 1)

\* User.findOne({'subscription.<field>': value}): the first match, or null.
findOne(us, field, value) == firstMatch(us, field, value, 1)

(***************************************************************************)
(* The webhook's handler functions.  Each takes the User collection, the   *)
(* event's object and the fault of this request, and gives the collection  *)
(* after the handler has returned.                                         *)
(***************************************************************************)
handleCheckoutComplete(us, session, fault) ==
  LET data == [customerId |-> session.customer,
               subscriptionId |-> session.subscription,
               currentPeriodEnd |-> {}]
  IN IF ~TruthyId(session.userId)
     THEN IF fault = "provider" THEN us
          ELSE LET metaId == customerMetadataUserId(session.customer) IN
               IF ~TruthyId(metaId) \/ fault = "db" THEN us
               ELSE LET user == findById(us, metaId) IN
                    IF user # Null
                    THEN [us EXCEPT ![user] = updateSubscription(@, "premium", data)]
                    ELSE us
     ELSE IF fault = "db" THEN us
          ELSE LET user == findById(us, session.userId) IN
               IF user # Null
               THEN [us EXCEPT ![user] = updateSubscription(@, "premium", data)]
               ELSE us

\* The user a subscription event is about: by metadata.userId when the
\* subscription carries one, else by the stored customer id.
subscriptionUser(us, subscription) ==
  IF TruthyId(subscription.userId)
  THEN findById(us, subscription.userId)
  ELSE findOne(us, "stripeCustomerId", subscription.customer)

\* statusOf that takes a canceled subscription for any other inactive one.
statusOfWithoutCancelled(subscriptionStatus) ==
  IF subscriptionStatus = "active" THEN "premium" ELSE "free"

\* The entitlement a subscription event's status is mapped to.
statusOf(subscriptionStatus) ==
  IF subscriptionStatus = "active" THEN "premium"
  ELSE IF subscriptionStatus = "canceled" THEN "cancelled"
  ELSE "free"

\* handleSubscriptionUpdate that treats cancelled as final: an event never
\* brings a cancelled user back to premium.
handleSubscriptionUpdateKeepingCancelled(us, subscription, fault) ==
  IF fault = "db" THEN us
  ELSE LET user == subscriptionUser(us, subscription)
           status == statusOf(subscription.status)
       IN IF user # Null /\ ~(us[user].status = "cancelled" /\ status = "premium")
          THEN [us EXCEPT ![user] = updateSubscription(@, status,
                   [customerId |-> Null, subscriptionId |-> subscription.id,
                    currentPeriodEnd |-> {subscription.current_period_end}])]
          ELSE us

handleSubscriptionUpdate(us, subscription, fault) ==
  IF fault = "db" THEN us
  ELSE LET user == subscriptionUser(us, subscription)
           status == statusOf(subscription.status)
       IN IF user # Null
          THEN [us EXCEPT ![user] = updateSubscription(@, status,
                   [customerId |-> Null, subscriptionId |-> subscription.id,
                    currentPeriodEnd |-> {subscription.current_period_end}])]
          ELSE us

\* handleSubscriptionDeleted that leaves the period end in place.
handleSubscriptionDeletedKeepingPeriod(us, subscription, fault) ==
  IF fault = "db" THEN us
  ELSE LET user == findOne(us, "stripeSubscriptionId", subscription.id) IN
       IF user # Null
       THEN [us EXCEPT ![user].status = "free",
                       ![user].stripeSubscriptionId = Null]
       ELSE us

\* handleSubscriptionDeleted that also unlinks the customer.
handleSubscriptionDeletedClearingCustomer(us, subscription, fault) ==
  IF fault = "db" THEN us
  ELSE LET user == findOne(us, "stripeSubscriptionId", subscription.id) IN
       IF user # Null
       THEN [us EXCEPT ![user].status = "free",
                       ![user].stripeCustomerId = Null,
                       ![user].stripeSubscriptionId = Null,
                       ![user].currentPeriodEnd = NoDate]
       ELSE us

\* handleSubscriptionDeleted that finds the user by the customer of the
\* subscription.
handleSubscriptionDeletedByCustomer(us, subscription, fault) ==
  IF fault = "db" THEN us
  ELSE LET user == findOne(us, "stripeCustomerId", subscriptionCustomer(subscription.id)) IN
       IF user # Null
       THEN [us EXCEPT ![user].status = "free",
                       ![user].stripeSubscriptionId = Null,
                       ![user].currentPeriodEnd = NoDate]
       ELSE us

\* handleSubscriptionDeleted(subscription).
handleSubscriptionDeleted(us, subscription, fault) ==
  IF fault = "db" THEN us
  ELSE LET user == findOne(us, "stripeSubscriptionId", subscription.id) IN
       IF user # Null
       THEN [us EXCEPT ![user].status = "free",
                       ![user].stripeSubscriptionId = Null,
                       ![user].currentPeriodEnd = NoDate]
       ELSE us

\* handlePaymentSuccess that also forgets the period end on an upgrade.
handlePaymentSuccessResettingPeriod(us, invoice, fault) ==
  IF ~TruthyId(invoice.subscription) \/ fault = "db" THEN us
  ELSE LET user == findOne(us, "stripeSubscriptionId", invoice.subscription) IN
       IF user # Null /\ us[user].status # "premium"
       THEN [us EXCEPT ![user].status = "premium",
                       ![user].currentPeriodEnd = NoDate]
       ELSE us

handlePaymentSuccess(us, invoice, fault) ==
  IF ~TruthyId(invoice.subscription) \/ fault = "db" THEN us
  ELSE LET user == findOne(us, "stripeSubscriptionId", invoice.subscription) IN
       IF user # Null /\ us[user].status # "premium"
       THEN [us EXCEPT ![user].status = "premium"]
       ELSE us

\* handlePaymentFailed that downgrades the subscription's user.
handlePaymentFailedDowngrading(us, invoice, fault) ==
  IF ~TruthyId(invoice.subscription) \/ fault = "db" THEN us
  ELSE LET user == findOne(us, "stripeSubscriptionId", invoice.subscription) IN
       IF user # Null THEN [us EXCEPT ![user].status = "free"] ELSE us

handlePaymentFailed(us, invoice, fault) ==
  IF ~TruthyId(invoice.subscription) \/ fault = "db" THEN us
  ELSE LET user == findOne(us, "stripeSubscriptionId", invoice.subscription) IN
       IF user # Null THEN us ELSE us

\* The switch of the webhook route with a default case that downgrades
\* every user.
dispatchDefaultingToFree(us, e, fault) ==
  CASE e.type = "checkout.session.completed" -> handleCheckoutComplete(us, e, fault)
    [] e.type \in {"customer.subscription.created", "customer.subscription.updated"}
         -> handleSubscriptionUpdate(us, e, fault)
    [] e.type = "customer.subscription.deleted" -> handleSubscriptionDeleted(us, e, fault)
    [] e.type = "invoice.payment_succeeded" -> handlePaymentSuccess(us, e, fault)
    [] e.type = "invoice.payment_failed" -> handlePaymentFailed(us, e, fault)
    [] OTHER -> [u \in Users |-> [us[u] EXCEPT !.status = "free"]]

\* The switch of the webhook route on event.type.
dispatch(us, e, fault) ==
  CASE e.type = "checkout.session.completed" -> handleCheckoutComplete(us, e, fault)
    [] e.type \in {"customer.subscription.created", "customer.subscription.updated"}
         -> handleSubscriptionUpdate(us, e, fault)
    [] e.type = "customer.subscription.deleted" -> handleSubscriptionDeleted(us, e, fault)
    [] e.type = "invoice.payment_succeeded" -> handlePaymentSuccess(us, e, fault)
    [] e.type = "invoice.payment_failed" -> handlePaymentFailed(us, e, fault)
    [] OTHER -> us

\* The faults that can strike while event e is handled: the store fails
\* where the handler calls it, the provider where the handler calls it.
FaultsOf(e) ==
  {"none"}
  \cup (IF e.type = "checkout.session.completed"
        THEN (IF e.userId = Null
              THEN {"provider"} \cup (IF customerMetadataUserId(e.customer) # Null
                                      THEN {"db"} ELSE {})
              ELSE {"db"})
        ELSE IF e.type \in {"invoice.payment_succeeded", "invoice.payment_failed"}
        THEN (IF e.subscription # Null THEN {"db"} ELSE {})
        ELSE IF e \in UnsupportedEvents THEN {}
        ELSE {"db"})

(***************************************************************************)
(* State.                                                                  *)
(***************************************************************************)
VARIABLES
  users,      \* the User collection: user id -> document
  request,    \* the request answered last, NoRequest when none is on record
  fault,      \* the fault that struck that request
  before,     \* the User collection when that request arrived
  response,   \* the response that request was given
  prev,       \* the request answered just before it, back to back
  webhookSecret, \* process.env.STRIPE_WEBHOOK_SECRET, Null when not set
  clock,      \* the time new Date() gives
  chats,      \* the Chat collection: chat id -> document
  chatsBefore, \* the Chat collection when the last request arrived
  openai,     \* the completions that request asked the language model for
  freeTierDailyLimit, \* process.env.FREE_TIER_DAILY_LIMIT, NotSet or a number
  recordings, \* user id -> how often incrementQuestionCount ran for the user today
  inflight,   \* the requests being handled step by step: slot -> position
  res,        \* the response of POST /api/chat/anonymous: what was written to it
  reader,     \* anonymousMessageStream in the browser: its position and locals
  home        \* the Home page of the anonymous visitor: its state

vars == <<users, request, fault, before, response, prev, webhookSecret,
          clock, chats, chatsBefore, openai, freeTierDailyLimit, recordings,
          inflight, res, reader, home>>

\* The anonymous streaming exchange, which the other routes leave alone.
streamVars == <<res, reader, home>>

\* The response of POST /api/chat/anonymous before a request has come.
NoStream == [pc |-> "idle", status |-> 0, upstream |-> <<>>, wire |-> <<>>,
             outcome |-> "none"]

\* anonymousMessageStream before it is called.
NoReader == [pc |-> "idle", received |-> 0, fullResponse |-> "", result |-> ""]

\* The state of the Home page of a visitor who has not asked yet.
NewHome == [messageCount |-> 0, sending |-> FALSE, error |-> FALSE,
            showSignupPrompt |-> FALSE, answers |-> 0]

\* The configuration of the process.
config == <<webhookSecret, freeTierDailyLimit>>

\* What the billing routes neither read nor write.
chatVars == <<clock, chats, chatsBefore, openai, recordings>>

NoRequest == [kind |-> "none"]
NoResponse == [status |-> 0, body |-> "none"]

\* The endpoint secret the provider signs its deliveries with, and the
\* secrets a sender can sign with.
SharedSecret == "whsec_1"
Secrets == {SharedSecret, "whsec_2"}

Init ==
  /\ users = [u \in Users |-> NewUser]
  /\ request = NoRequest
  /\ fault = "none"
  /\ before = users
  /\ response = NoResponse
  /\ prev = NoRequest
  /\ webhookSecret = SharedSecret
  /\ clock = 0
  /\ chats = <<>>
  /\ chatsBefore = <<>>
  /\ openai = 0
  /\ freeTierDailyLimit = NotSet
  /\ recordings = [u \in Users |-> 0]
  /\ inflight = <<>>
  /\ res = NoStream
  /\ reader = NoReader
  /\ home = NewHome

\* POST /api/stripe/webhook with a verified event e, after request p.
webhookAfter(e, f, p) ==
  /\ users' = dispatch(users, e, f)
  /\ request' = [kind |-> "webhook", event |-> e]
  /\ fault' = f
  /\ before' = users
  /\ response' = [status |-> 200, body |-> "received"]
  /\ prev' = p
  /\ UNCHANGED <<config, streamVars, inflight, chatVars>>

\* The provider delivers event e.
Webhook(e, f) ==
  /\ request = NoRequest
  /\ webhookAfter(e, f, NoRequest)

\* The provider delivers the event of the last request once more
\* (at-least-once delivery).
Redeliver(f) ==
  /\ request.kind = "webhook"
  /\ f \in FaultsOf(request.event)
  /\ webhookAfter(request.event, f, [kind |-> "webhook", event |-> request.event, fault |-> fault])

\* The exchange is over; nothing of it is kept but the stored users.
Close ==
  /\ request # NoRequest
  /\ request' = NoRequest
  /\ fault' = "none"
  /\ before' = users
  /\ response' = NoResponse
  /\ prev' = NoRequest
  /\ chatsBefore' = chats
  /\ openai' = 0
  /\ UNCHANGED <<users, config, streamVars, inflight, clock, chats, recordings>>

Next ==
  \/ \E e \in Events : \E f \in FaultsOf(e) : Webhook(e, f)
  \/ \E f \in Faults : Redeliver(f)
  \/ Close

Spec == Init /\ [][Next]_vars

(***************************************************************************)
(* Out-of-order delivery.  The events the provider generates over the life *)
(* of subscription sub_1 of user u1, in the order it generates them; the   *)
(* provider delivers any of them at any time, back to back.                *)
(***************************************************************************)
Generated ==
  << [type |-> "checkout.session.completed", userId |-> "u1", customer |-> "cus_1",
      subscription |-> "sub_1", payment_status |-> "paid"],
     [type |-> "customer.subscription.created", id |-> "sub_1", userId |-> "u1",
      customer |-> "cus_1", status |-> "active", current_period_end |-> 1],
     [type |-> "invoice.payment_succeeded", subscription |-> "sub_1"],
     [type |-> "customer.subscription.updated", id |-> "sub_1", userId |-> Null,
      customer |-> "cus_1", status |-> "active", current_period_end |-> 2],
     [type |-> "invoice.payment_failed", subscription |-> "sub_1"],
     [type |-> "customer.subscription.updated", id |-> "sub_1", userId |-> "u1",
      customer |-> "cus_1", status |-> "past_due", current_period_end |-> 2],
     [type |-> "customer.subscription.updated", id |-> "sub_1", userId |-> Null,
      customer |-> "cus_1", status |-> "canceled", current_period_end |-> 2],
     [type |-> "customer.subscription.updated", id |-> "sub_1", userId |-> "u1",
      customer |-> "cus_1", status |-> "canceled", current_period_end |-> 2],
     [type |-> "customer.subscription.deleted", id |-> "sub_1"] >>

\* The place of event e in the order of generation.
generatedAt(e) == CHOOSE i \in 1..Len(Generated) : Generated[i] = e

\* The provider delivers the i-th generated event, whatever it delivered before.
Deliver(i, f) ==
  /\ f \in FaultsOf(Generated[i])
  /\ webhookAfter(Generated[i], f,
       IF request = NoRequest THEN NoRequest
       ELSE [kind |-> "webhook", event |-> request.event, fault |-> fault])

NextOrder == \E i \in 1..Len(Generated) : \E f \in Faults : Deliver(i, f)

SpecOrder == Init /\ [][NextOrder]_vars

(***************************************************************************)
(* Signature verification.  Anyone can post to the public webhook route: a *)
(* request carries a raw body and a stripe-signature header, which is a    *)
(* keyed digest of some payload under some secret.                         *)
(***************************************************************************)
\* stripe.webhooks.constructEvent(body, sig, secret) returns the event
\* (rather than throwing): the header is the digest of this very body under
\* this very secret.
constructEvent(body, sig, secret) == sig.payload = body /\ sig.secret = secret

\* The try block of the route: has it produced an event?
parsed(body, sig) ==
  IF TruthyId(webhookSecret) THEN constructEvent(body, sig, webhookSecret) ELSE TRUE

\* POST /api/stripe/webhook with raw body `body` and signature header sig.
Post(body, sig, f) ==
  /\ f \in (IF parsed(body, sig) THEN FaultsOf(body) ELSE {"none"})
  /\ users' = IF parsed(body, sig) THEN dispatch(users, body, f) ELSE users
  /\ request' = [kind |-> "webhook", event |-> body, signature |-> sig]
  /\ fault' = f
  /\ before' = users
  /\ response' = IF parsed(body, sig)
                 THEN [status |-> 200, body |-> "received"]
                 ELSE [status |-> 400, body |-> "Webhook Error"]
  /\ prev' = NoRequest
  /\ UNCHANGED <<config, streamVars, inflight, chatVars>>

\* The server runs with the endpoint secret configured, or with none.
InitSignature ==
  /\ users = [u \in Users |-> NewUser]
  /\ request = NoRequest
  /\ fault = "none"
  /\ before = users
  /\ response = NoResponse
  /\ prev = NoRequest
  /\ webhookSecret \in {SharedSecret, Null}
  /\ clock = 0
  /\ chats = <<>>
  /\ chatsBefore = <<>>
  /\ openai = 0
  /\ freeTierDailyLimit = NotSet
  /\ recordings = [u \in Users |-> 0]
  /\ inflight = <<>>
  /\ res = NoStream
  /\ reader = NoReader
  /\ home = NewHome

NextSignature ==
  \E i, j \in 1..Len(Generated) : \E k \in Secrets : \E f \in Faults :
    Post(Generated[i], [payload |-> Generated[j], secret |-> k], f)

SpecSignature == InitSignature /\ [][NextSignature]_vars

(***************************************************************************)
(* The synchronous fallback routes: verify-session and sync-subscription.  *)
(***************************************************************************)
\* The user whose email address the provider's customer c carries (cus_9
\* was created outside the application, for the address of u1).
customerEmailUser(c) ==
  CASE c = "cus_2" -> "u2"
    [] OTHER -> "u1"

\* A subscription object of the provider, for customer c.
SubscriptionObjects(c) ==
  {[id |-> sub, current_period_end |-> pe] :
     sub \in {x \in Subscriptions : subscriptionCustomer(x) = c},
     pe \in 1..MaxPeriodEnd}

\* The provider's list answers and expanded fields: empty, or one object.
AtMostOne(S) == {<<>>} \cup {<<x>> : x \in S}

\* The checkout sessions stripe.checkout.sessions.retrieve can return, with
\* the subscription expanded.
CheckoutSessions ==
  UNION {[userId : MetadataUserIds(c), customer : {c},
          subscription : AtMostOne(SubscriptionObjects(c)),
          payment_status : PaymentStatuses] : c \in Customers}

\* verify-session without the test that the session is the caller's.
verifySessionWithoutOwnership(us, caller, session, f) ==
  IF ~us[caller].isActive \/ f = "provider" THEN us
  ELSE IF session.payment_status = "paid" /\ session.subscription # <<>>
  THEN IF f = "db" THEN us
       ELSE [us EXCEPT ![caller] = updateSubscription(@, "premium",
               [customerId |-> session.customer,
                subscriptionId |-> session.subscription[1].id,
                currentPeriodEnd |-> {session.subscription[1].current_period_end}])]
  ELSE us

\* The User collection after POST /api/stripe/verify-session by caller, for
\* the id of `session`.
verifySession(us, caller, session, f) ==
  IF ~us[caller].isActive \/ f = "provider" THEN us
  ELSE IF /\ session.userId # caller
          /\ session.customer # us[caller].stripeCustomerId
  THEN us
  ELSE IF session.payment_status = "paid" /\ session.subscription # <<>>
  THEN IF f = "db" THEN us
       ELSE [us EXCEPT ![caller] = updateSubscription(@, "premium",
               [customerId |-> session.customer,
                subscriptionId |-> session.subscription[1].id,
                currentPeriodEnd |-> {session.subscription[1].current_period_end}])]
  ELSE us

\* The response of that request.
verifySessionResponse(us, caller, session, f) ==
  IF ~us[caller].isActive THEN [status |-> 401, body |-> "error"]
  ELSE IF f = "provider" THEN [status |-> 500, body |-> "Failed to verify session"]
  ELSE IF /\ session.userId # caller
          /\ session.customer # us[caller].stripeCustomerId
  THEN [status |-> 500, body |-> "Failed to verify session"]
  ELSE IF session.payment_status = "paid" /\ session.subscription # <<>>
  THEN IF f = "db" THEN [status |-> 500, body |-> "Failed to verify session"]
       ELSE [status |-> 200, body |-> "premium"]
  ELSE [status |-> 200, body |-> "Payment not completed"]

\* The faults that can strike a verify-session request.
FaultsOfVerify(us, caller, session) ==
  IF ~us[caller].isActive THEN {"none"}
  ELSE
  {"none", "provider"}
  \cup (IF /\ ~(/\ session.userId # caller
                 /\ session.customer # us[caller].stripeCustomerId)
            /\ session.payment_status = "paid"
            /\ session.subscription # <<>>
         THEN {"db"} ELSE {})

\* The customer sync-subscription goes on with (stripeCustomer), as a list
\* of at most one: provider.customers is the answer of stripe.customers.list
\* for the caller's email address.
syncCustomer(user, provider, f) ==
  IF ~TruthyId(user.stripeCustomerId) THEN provider.customers
  ELSE IF f = "retrieve" THEN provider.customers
  ELSE <<user.stripeCustomerId>>

\* sync-subscription that does not look for trialing subscriptions.
syncSubscriptionWithoutTrial(us, caller, provider, f) ==
  LET found == syncCustomer(us[caller], provider, f) IN
  IF ~us[caller].isActive \/ f = "provider" \/ found = <<>> \/ f = "db" THEN us
  ELSE IF provider.active # <<>>
  THEN [us EXCEPT ![caller] = updateSubscription(@, "premium",
          [customerId |-> found[1], subscriptionId |-> provider.active[1].id,
           currentPeriodEnd |-> {provider.active[1].current_period_end}])]
  ELSE [us EXCEPT ![caller] = updateSubscription(@, "free",
          [customerId |-> found[1], subscriptionId |-> Null, currentPeriodEnd |-> {}])]

\* The User collection after POST /api/stripe/sync-subscription by caller:
\* provider.active and provider.trialing are the answers of
\* stripe.subscriptions.list for the customer found.
syncSubscription(us, caller, provider, f) ==
  LET found == syncCustomer(us[caller], provider, f) IN
  IF ~us[caller].isActive \/ f = "provider" \/ found = <<>> \/ f = "db" THEN us
  ELSE IF provider.active # <<>>
  THEN [us EXCEPT ![caller] = updateSubscription(@, "premium",
          [customerId |-> found[1], subscriptionId |-> provider.active[1].id,
           currentPeriodEnd |-> {provider.active[1].current_period_end}])]
  ELSE IF provider.trialing # <<>>
  THEN [us EXCEPT ![caller] = updateSubscription(@, "premium",
          [customerId |-> found[1], subscriptionId |-> provider.trialing[1].id,
           currentPeriodEnd |-> {provider.trialing[1].current_period_end}])]
  ELSE [us EXCEPT ![caller] = updateSubscription(@, "free",
          [customerId |-> found[1], subscriptionId |-> Null, currentPeriodEnd |-> {}])]

\* The response of that request.
syncSubscriptionResponse(us, caller, provider, f) ==
  LET found == syncCustomer(us[caller], provider, f) IN
  IF ~us[caller].isActive THEN [status |-> 401, body |-> "error"]
  ELSE IF f = "provider" THEN [status |-> 402, body |-> "Payment processing error"]
  ELSE IF found = <<>> THEN [status |-> 200, body |-> "free"]
  ELSE IF f = "db" THEN [status |-> 500, body |-> "error"]
  ELSE IF provider.active # <<>> \/ provider.trialing # <<>>
  THEN [status |-> 200, body |-> "premium"]
  ELSE [status |-> 200, body |-> "free"]

\* The answers the provider can give a sync-subscription request of caller
\* (the fields the route does not get to read are empty).
ProviderAnswers(us, caller, f) ==
  {p \in [customers : AtMostOne({c \in Customers : customerEmailUser(c) = caller}),
          active : AtMostOne(UNION {SubscriptionObjects(c) : c \in Customers}),
          trialing : AtMostOne(UNION {SubscriptionObjects(c) : c \in Customers})] :
     LET found == syncCustomer(us[caller], p, f) IN
       /\ ~us[caller].isActive
            => p.customers = <<>> /\ p.active = <<>> /\ p.trialing = <<>>
       /\ (TruthyId(us[caller].stripeCustomerId) /\ f # "retrieve")
            => p.customers = <<>>
       /\ \A l \in {p.active, p.trialing} :
            l # <<>> => /\ found # <<>>
                        /\ l[1] \in SubscriptionObjects(found[1])
       /\ p.active # <<>> /\ p.trialing # <<>> => p.active[1].id # p.trialing[1].id}

\* The faults that can strike a sync-subscription request.
FaultsOfSync(us, caller) ==
  IF ~us[caller].isActive THEN {"none"}
  ELSE
  {"none", "provider", "db"}
  \cup (IF TruthyId(us[caller].stripeCustomerId) THEN {"retrieve"} ELSE {})

\* POST /api/stripe/verify-session.
VerifySession(caller, session, f) ==
  /\ request = NoRequest
  /\ f \in FaultsOfVerify(users, caller, session)
  /\ users' = verifySession(users, caller, session, f)
  /\ request' = [kind |-> "verify", caller |-> caller, session |-> session]
  /\ fault' = f
  /\ before' = users
  /\ response' = verifySessionResponse(users, caller, session, f)
  /\ prev' = NoRequest
  /\ UNCHANGED <<config, streamVars, inflight, chatVars>>

\* POST /api/stripe/sync-subscription.
SyncSubscription(caller, f) ==
  /\ request = NoRequest
  /\ f \in FaultsOfSync(users, caller)
  /\ \E provider \in ProviderAnswers(users, caller, f) :
       /\ f = "db" => syncCustomer(users[caller], provider, f) # <<>>
       /\ users' = syncSubscription(users, caller, provider, f)
       /\ request' = [kind |-> "sync", caller |-> caller, provider |-> provider]
       /\ response' = syncSubscriptionResponse(users, caller, provider, f)
  /\ fault' = f
  /\ before' = users
  /\ prev' = NoRequest
  /\ UNCHANGED <<config, streamVars, inflight, chatVars>>

\* POST /api/stripe/verify-session coming in right after a webhook delivery
\* was answered: the delivery and the users it found stay on record.
VerifySessionAgain(caller, session, f) ==
  /\ request.kind = "webhook"
  /\ f \in FaultsOfVerify(users, caller, session)
  /\ users' = verifySession(users, caller, session, f)
  /\ request' = [kind |-> "verify", caller |-> caller, session |-> session]
  /\ fault' = f
  /\ before' = users
  /\ response' = verifySessionResponse(users, caller, session, f)
  /\ prev' = [kind |-> "webhook", event |-> request.event, fault |-> fault,
              before |-> before]
  /\ UNCHANGED <<config, streamVars, inflight, chatVars>>

\* A subscription's life told by the provider's events, and the success
\* page asking for its checkout session at any time.
NextReverify ==
  \/ \E e \in {Generated[2], Generated[9]} : Webhook(e, "none")
  \/ \E caller \in Users : \E f \in Faults : \E session \in CheckoutSessions :
       VerifySession(caller, session, f)
  \/ \E caller \in Users : \E f \in Faults : \E session \in CheckoutSessions :
       VerifySessionAgain(caller, session, f)
  \/ Close

SpecReverify == Init /\ [][NextReverify]_vars

NextFallback ==
  \/ \E i \in 1..Len(Generated) : \E f \in FaultsOf(Generated[i]) :
       Webhook(Generated[i], f)
  \/ \E caller \in Users : \E f \in Faults : \E session \in CheckoutSessions :
       VerifySession(caller, session, f)
  \/ \E caller \in Users : \E f \in Faults : SyncSubscription(caller, f)
  \/ Close

SpecFallback == Init /\ [][NextFallback]_vars

(***************************************************************************)
(* The chat routes and the quota gate.  A request carries the valid token  *)
(* of `caller`; `limited` tells whether chatLimiter finds the client over  *)
(* its rate.                                                               *)
(***************************************************************************)
\* The middleware in front of a metered route's handler: the status it
\* rejects the request with, or 0 when it lets the request through.
\* Here without the subscription check.
gateWithoutSubscriptionCheck(user, limited) ==
  IF ~user.isActive THEN 401
  ELSE IF limited THEN 429
  ELSE 0

\* The gate without protect's test of the active flag.
gateIgnoringDeactivation(user, limited) ==
  IF limited THEN 429
  ELSE IF user.status # "premium" THEN 402
  ELSE 0

\* The gate with a subscription check that also wants a period end.
gateRequiringPeriodEnd(user, limited) ==
  IF ~user.isActive THEN 401
  ELSE IF limited THEN 429
  ELSE IF user.status # "premium" \/ user.currentPeriodEnd = NoDate THEN 402
  ELSE 0

\* protect, chatLimiter, checkQuestionLimit.
gate(user, limited) ==
  IF ~user.isActive THEN 401
  ELSE IF limited THEN 429
  ELSE IF user.status # "premium" THEN 402
  ELSE 0

\* What a request leaves behind besides its effect.
answered(req, f, status, body, calls) ==
  /\ request' = req
  /\ fault' = f
  /\ before' = users
  /\ chatsBefore' = chats
  /\ response' = [status |-> status, body |-> body]
  /\ openai' = calls
  /\ prev' = NoRequest
  /\ UNCHANGED <<config, streamVars, inflight, clock>>

\* POST /api/chat/new.
NewChat(caller) ==
  /\ request = NoRequest
  /\ Len(chats) < MaxChats
  /\ IF ~users[caller].isActive
     THEN /\ UNCHANGED <<users, chats, recordings>>
          /\ answered([kind |-> "new", caller |-> caller], "none", 401, "error", 0)
     ELSE /\ chats' = Append(chats, [user |-> caller, isActive |-> TRUE, messages |-> <<>>])
          /\ UNCHANGED <<users, recordings>>
          /\ answered([kind |-> "new", caller |-> caller], "none", 201, "chat", 0)

\* The quick route recording the question although the completion failed.
QuickCountingFailures(caller, limited, f) ==
  LET req == [kind |-> "quick", caller |-> caller, limited |-> limited]
      rejected == gate(users[caller], limited)
  IN
  /\ request = NoRequest
  /\ f \in {"none", "openai"}
  /\ IF rejected # 0
     THEN /\ f = "none"
          /\ UNCHANGED <<users, chats, recordings>>
          /\ answered(req, f, rejected, "error", 0)
     ELSE /\ Len(chats) < MaxChats
          /\ users[caller].totalQuestions < MaxQuestions
          /\ users' = [users EXCEPT ![caller] = incrementQuestionCount(@, clock)]
          /\ recordings' = [recordings EXCEPT ![caller] = @ + 1]
          /\ IF f = "openai"
             THEN /\ chats' = Append(chats, [user |-> caller, isActive |-> TRUE, messages |-> <<"user">>])
                  /\ answered(req, f, 500, "error", 1)
             ELSE /\ chats' = Append(chats, [user |-> caller, isActive |-> TRUE,
                                             messages |-> <<"user", "assistant">>])
                  /\ answered(req, f, 201, "chat", 1)

\* POST /api/chat/quick.
Quick(caller, limited, f) ==
  LET req == [kind |-> "quick", caller |-> caller, limited |-> limited]
      rejected == gate(users[caller], limited)
  IN
  /\ request = NoRequest
  /\ f \in {"none", "openai"}
  /\ IF rejected # 0
     THEN /\ f = "none"
          /\ UNCHANGED <<users, chats, recordings>>
          /\ answered(req, f, rejected, "error", 0)
     ELSE /\ Len(chats) < MaxChats
          /\ users[caller].totalQuestions < MaxQuestions
          /\ IF f = "openai"
             THEN /\ chats' = Append(chats, [user |-> caller, isActive |-> TRUE, messages |-> <<"user">>])
                  /\ UNCHANGED <<users, recordings>>
                  /\ answered(req, f, 500, "error", 1)
             ELSE /\ chats' = Append(chats, [user |-> caller, isActive |-> TRUE,
                                             messages |-> <<"user", "assistant">>])
                  /\ users' = [users EXCEPT ![caller] = incrementQuestionCount(@, clock)]
                  /\ recordings' = [recordings EXCEPT ![caller] = @ + 1]
                  /\ answered(req, f, 201, "chat", 1)

\* Chat.getChatById(chatId, userId): the chat, as a list of at most one.
getChatById(cs, chatId, userId) ==
  IF /\ chatId \in 1..Len(cs)
     /\ cs[chatId].user = userId
     /\ cs[chatId].isActive
  THEN <<cs[chatId]>> ELSE <<>>

\* POST /api/chat/:chatId/message.
Message(caller, chatId, limited, f) ==
  LET req == [kind |-> "message", caller |-> caller, chatId |-> chatId,
              limited |-> limited]
      rejected == gate(users[caller], limited)
      chat == getChatById(chats, chatId, caller)
  IN
  /\ request = NoRequest
  /\ f \in {"none", "openai"}
  /\ IF rejected # 0
     THEN /\ f = "none"
          /\ UNCHANGED <<users, chats, recordings>>
          /\ answered(req, f, rejected, "error", 0)
     ELSE IF chat = <<>>
     THEN /\ f = "none"
          /\ UNCHANGED <<users, chats, recordings>>
          /\ answered(req, f, 404, "error", 0)
     ELSE /\ Len(chat[1].messages) + 2 <= MaxMessages
          /\ users[caller].totalQuestions < MaxQuestions
          /\ IF f = "openai"
             THEN /\ chats' = [chats EXCEPT ![chatId].messages = Append(@, "user")]
                  /\ UNCHANGED <<users, recordings>>
                  /\ answered(req, f, 500, "error", 1)
             ELSE /\ chats' = [chats EXCEPT ![chatId].messages = @ \o <<"user", "assistant">>]
                  /\ users' = [users EXCEPT ![caller] = incrementQuestionCount(@, clock)]
                  /\ recordings' = [recordings EXCEPT ![caller] = @ + 1]
                  /\ answered(req, f, 200, "message", 1)

\* GET /api/auth/me.
Me(caller) ==
  /\ request = NoRequest
  /\ request' = [kind |-> "me", caller |-> caller]
  /\ fault' = "none"
  /\ before' = users
  /\ chatsBefore' = chats
  /\ response' = IF ~users[caller].isActive
                 THEN [status |-> 401, body |-> "error"]
                 ELSE [status |-> 200, body |-> "user",
                       usage |-> canAskQuestion(users[caller], clock, freeTierDailyLimit)]
  /\ openai' = 0
  /\ prev' = NoRequest
  /\ UNCHANGED <<users, chats, config, streamVars, inflight, clock, recordings>>

\* Time passes.
Tick ==
  /\ request = NoRequest
  /\ clock < MaxNow
  /\ clock' = clock + 1
  /\ recordings' = IF dayOf(clock + 1) = dayOf(clock) THEN recordings
                   ELSE [u \in Users |-> 0]
  /\ UNCHANGED <<users, request, fault, before, response, prev, config, streamVars, inflight,
                 chats, chatsBefore, openai>>

\* The events that take user u1 to premium and back in the chat
\* specification.
ChatEvents == {Generated[2], Generated[9]}

NextChat ==
  \/ \E e \in ChatEvents : Webhook(e, "none")
  \/ \E caller \in Users : NewChat(caller)
  \/ \E caller \in Users : \E limited \in BOOLEAN : \E f \in Faults :
       Quick(caller, limited, f)
  \/ \E caller \in Users : \E chatId \in 1..MaxChats : \E limited \in BOOLEAN :
       \E f \in Faults : Message(caller, chatId, limited, f)
  \/ \E caller \in Users : Me(caller)
  \/ Tick
  \/ Close

\* The server runs with any daily allowance configured, or none.
InitChat ==
  /\ users = [u \in Users |-> NewUser]
  /\ request = NoRequest
  /\ fault = "none"
  /\ before = users
  /\ response = NoResponse
  /\ prev = NoRequest
  /\ webhookSecret = SharedSecret
  /\ clock = 0
  /\ chats = <<>>
  /\ chatsBefore = <<>>
  /\ openai = 0
  /\ freeTierDailyLimit \in DailyLimits
  /\ recordings = [u \in Users |-> 0]
  /\ inflight = <<>>
  /\ res = NoStream
  /\ reader = NoReader
  /\ home = NewHome

SpecChat == InitChat /\ [][NextChat]_vars

(***************************************************************************)
(* Checkout and account deletion: the two further requests that write the  *)
(* billing fields or the active flag of the caller.                        *)
(***************************************************************************)
\* The id of the customer stripe.customers.create makes for user u (the
\* one customer that carries u in its metadata).
createdCustomer(u) == CHOOSE c \in Customers : customerMetadataUserId(c) = u

\* Whether create-checkout-session by caller gets as far as calling
\* stripe.customers.create.
createsCustomer(us, caller, limited) ==
  /\ us[caller].isActive
  /\ ~limited
  /\ us[caller].status # "premium"
  /\ ~TruthyId(us[caller].stripeCustomerId)

\* The User collection after POST /api/stripe/create-checkout-session by
\* caller; `limited` tells whether paymentLimiter finds the client over its
\* rate.
createCheckoutSession(us, caller, limited, f) ==
  IF createsCustomer(us, caller, limited) /\ f \notin {"provider", "db"}
  THEN [us EXCEPT ![caller].stripeCustomerId = createdCustomer(caller)]
  ELSE us

\* The response of that request.
createCheckoutSessionResponse(us, caller, limited, f) ==
  IF ~us[caller].isActive THEN [status |-> 401, body |-> "error"]
  ELSE IF limited THEN [status |-> 429, body |-> "error"]
  ELSE IF us[caller].status = "premium" THEN [status |-> 400, body |-> "error"]
  ELSE IF f \in {"provider", "sessions"}
  THEN [status |-> 402, body |-> "Payment processing error"]
  ELSE IF f = "db" THEN [status |-> 500, body |-> "error"]
  ELSE [status |-> 200, body |-> "session"]

\* The faults that can strike a create-checkout-session request.
FaultsOfCheckout(us, caller, limited) ==
  IF ~us[caller].isActive \/ limited \/ us[caller].status = "premium"
  THEN {"none"}
  ELSE {"none", "sessions"}
       \cup (IF createsCustomer(us, caller, limited)
             THEN {"provider", "db"} ELSE {})

\* POST /api/stripe/create-checkout-session.
CreateCheckoutSession(caller, limited, f) ==
  /\ request = NoRequest
  /\ f \in FaultsOfCheckout(users, caller, limited)
  /\ users' = createCheckoutSession(users, caller, limited, f)
  /\ request' = [kind |-> "checkout", caller |-> caller, limited |-> limited]
  /\ fault' = f
  /\ before' = users
  /\ response' = createCheckoutSessionResponse(users, caller, limited, f)
  /\ prev' = NoRequest
  /\ UNCHANGED <<config, streamVars, inflight, chatVars>>

\* Chat.deleteAllUserChats(userId).
deleteAllUserChats(cs, userId) ==
  [i \in 1..Len(cs) |->
     IF cs[i].user = userId THEN [cs[i] EXCEPT !.isActive = FALSE] ELSE cs[i]]

\* DELETE /api/auth/account.
DeleteAccount(caller, f) ==
  /\ request = NoRequest
  /\ f \in (IF users[caller].isActive THEN {"none", "db"} ELSE {"none"})
  /\ IF ~users[caller].isActive
     THEN /\ UNCHANGED <<users, chats>>
          /\ answered([kind |-> "delete", caller |-> caller], f, 401, "error", 0)
     ELSE IF f = "db"
     THEN /\ UNCHANGED <<users, chats>>
          /\ answered([kind |-> "delete", caller |-> caller], f, 500, "error", 0)
     ELSE /\ users' = [users EXCEPT ![caller].isActive = FALSE]
          /\ chats' = deleteAllUserChats(chats, caller)
          /\ answered([kind |-> "delete", caller |-> caller], f, 200, "deactivated", 0)
  /\ UNCHANGED recordings

NextBilling ==
  \/ NextFallback
  \/ \E caller \in Users : \E limited \in BOOLEAN : \E f \in Faults :
       CreateCheckoutSession(caller, limited, f)
  \/ \E caller \in Users : \E f \in Faults : DeleteAccount(caller, f)

SpecBilling == Init /\ [][NextBilling]_vars

\* The protected routes, with the deletion of the account among them.
NextAccount ==
  \/ \E e \in ChatEvents : Webhook(e, "none")
  \/ \E caller \in Users : \E f \in Faults : DeleteAccount(caller, f)
  \/ \E caller \in Users : NewChat(caller)
  \/ \E caller \in Users : \E limited \in BOOLEAN : \E f \in Faults :
       Quick(caller, limited, f)
  \/ \E caller \in Users : \E chatId \in 1..MaxChats : \E limited \in BOOLEAN :
       \E f \in Faults : Message(caller, chatId, limited, f)
  \/ \E caller \in Users : Me(caller)
  \/ \E caller \in Users : \E limited \in BOOLEAN : \E f \in Faults :
       CreateCheckoutSession(caller, limited, f)
  \/ Close

SpecAccount == Init /\ [][NextAccount]_vars

(***************************************************************************)
(* updateSubscription on arbitrary documents and arguments: user u1 starts *)
(* with any entitlement, and the method is called with any status and any  *)
(* stripeData (a field that is not supplied reads as undefined).           *)
(***************************************************************************)
BillingDocuments ==
  {[NewUser EXCEPT !.status = st, !.stripeCustomerId = c,
                   !.stripeSubscriptionId = sub, !.currentPeriodEnd = pe,
                   !.questionsToday = q, !.totalQuestions = q,
                   !.lastQuestionDate = IF q = 0 THEN NoDate ELSE NewDate(0),
                   !.isActive = a] :
     <<st, c, sub, pe, q, a>> \in
       {"free", "premium", "cancelled"} \X {Null, "cus_1"} \X {Null, "sub_1"}
         \X {NoDate, NewDate(1000)} \X {0, 1} \X BOOLEAN}

\* The stripeData arguments: each field not supplied (or null), or a value;
\* the period end in seconds, 0 included.
StripeData ==
  [customerId : {Null, "cus_1", "cus_9"},
   subscriptionId : {Null, "sub_1", "sub_1b"},
   currentPeriodEnd : {NotSet} \cup {{n} : n \in 0..MaxPeriodEnd}]

InitUpdate ==
  /\ users \in [Users -> BillingDocuments]
  /\ users["u2"] = NewUser
  /\ request = NoRequest
  /\ fault = "none"
  /\ before = users
  /\ response = NoResponse
  /\ prev = NoRequest
  /\ webhookSecret = SharedSecret
  /\ clock = 0
  /\ chats = <<>>
  /\ chatsBefore = <<>>
  /\ openai = 0
  /\ freeTierDailyLimit = NotSet
  /\ recordings = [u \in Users |-> users[u].questionsToday]
  /\ inflight = <<>>
  /\ res = NoStream
  /\ reader = NoReader
  /\ home = NewHome

\* user.updateSubscription(status, stripeData) on the document of u1; with
\* fault "db" the save rejects.
UpdateSubscription(status, stripeData, f) ==
  /\ request = NoRequest
  /\ f \in {"none", "db"}
  /\ users' = IF f = "db" THEN users
              ELSE [users EXCEPT ![UserOrder[1]] =
                      updateSubscription(@, status, stripeData)]
  /\ request' = [kind |-> "update", user |-> UserOrder[1], status |-> status,
                 stripeData |-> stripeData]
  /\ fault' = f
  /\ before' = users
  /\ response' = NoResponse
  /\ prev' = NoRequest
  /\ UNCHANGED <<config, streamVars, inflight, chatVars>>

NextUpdate ==
  \/ \E status \in {"free", "premium", "cancelled"} : \E stripeData \in StripeData :
       \E f \in Faults : UpdateSubscription(status, stripeData, f)
  \/ Close

SpecUpdate == InitUpdate /\ [][NextUpdate]_vars

(***************************************************************************)
(* Requests in flight.  A handler loads its user document, works on the    *)
(* copy across the awaits of its provider calls, and saves it; the steps   *)
(* of several handlers interleave.  inflight holds, per handler, the       *)
(* document as loaded, the document as the handler has modified it, and    *)
(* the handler's position.                                                 *)
(***************************************************************************)
\* A save that replaces the stored document by the handler's copy.
saveWholeDocument(stored, loaded, doc) ==
  doc

\* document.save() of a document loaded as `loaded` and since modified to
\* `doc`, on the stored document `stored`: the update sets the paths the
\* handler changed and no other.
save(stored, loaded, doc) ==
  [field \in DOMAIN doc |->
     IF doc[field] # loaded[field] THEN doc[field] ELSE stored[field]]

\* The handlers that have saved.
Saved == {i \in DOMAIN inflight : inflight[i].pc = "saved"}

\* The id of the customer stripe.customers.create makes for the request in
\* slot i of user u: a new one at every call.
newCustomer(u, i) == createdCustomer(u) \o "_" \o ToString(i)

\* create-checkout-session by caller, up to its first await: protect has
\* loaded req.user, paymentLimiter and the premium test have passed or not.
CheckoutLoads(caller, limited) ==
  /\ Len(inflight) < MaxRequests
  /\ inflight' = Append(inflight,
       [kind |-> "checkout", user |-> caller, loaded |-> users[caller],
        doc |-> users[caller], created |-> FALSE,
        pc |-> IF \/ ~users[caller].isActive
                  \/ limited
                  \/ users[caller].status = "premium"
               THEN "rejected"
               ELSE IF ~TruthyId(users[caller].stripeCustomerId)
               THEN "customers.create"
               ELSE "sessions.create"])
  /\ UNCHANGED <<users, request, fault, before, response, prev, config, streamVars, chatVars>>

\* await stripe.customers.create(...) of the request in slot i, and the
\* assignment of the new id to req.user.
CustomersCreate(i, f) ==
  /\ i \in DOMAIN inflight
  /\ inflight[i].pc = "customers.create"
  /\ f \in {"none", "provider"}
  /\ inflight' = [inflight EXCEPT ![i] =
       IF f = "provider" THEN [@ EXCEPT !.pc = "failed"]
       ELSE [@ EXCEPT !.created = TRUE,
                      !.doc.stripeCustomerId = newCustomer(inflight[i].user, i),
                      !.pc = "save"]]
  /\ UNCHANGED <<users, request, fault, before, response, prev, config, streamVars, chatVars>>

\* await req.user.save() of the request in slot i.
CheckoutSaves(i, f) ==
  /\ i \in DOMAIN inflight
  /\ inflight[i].pc = "save"
  /\ f \in {"none", "db"}
  /\ users' = IF f = "db" THEN users
              ELSE [users EXCEPT ![inflight[i].user] =
                      save(@, inflight[i].loaded, inflight[i].doc)]
  /\ inflight' = [inflight EXCEPT ![i].pc =
                    IF f = "db" THEN "failed" ELSE "sessions.create"]
  /\ UNCHANGED <<request, fault, before, response, prev, config, streamVars, chatVars>>

\* await stripe.checkout.sessions.create(...) of the request in slot i, and
\* the response.
SessionsCreate(i, f) ==
  /\ i \in DOMAIN inflight
  /\ inflight[i].pc = "sessions.create"
  /\ f \in {"none", "sessions"}
  /\ inflight' = [inflight EXCEPT ![i].pc =
                    IF f = "sessions" THEN "failed" ELSE "answered"]
  /\ UNCHANGED <<users, request, fault, before, response, prev, config, streamVars, chatVars>>

NextCheckout ==
  \/ \E caller \in Users : \E limited \in BOOLEAN : CheckoutLoads(caller, limited)
  \/ \E i \in 1..MaxRequests : \E f \in Faults : CustomersCreate(i, f)
  \/ \E i \in 1..MaxRequests : \E f \in Faults : CheckoutSaves(i, f)
  \/ \E i \in 1..MaxRequests : \E f \in Faults : SessionsCreate(i, f)

SpecCheckout == Init /\ [][NextCheckout]_vars

\* The user whose document the handler of event e loads from collection
\* us, or null.
handlerUser(us, e) ==
  CASE e.type = "checkout.session.completed" ->
         findById(us, IF TruthyId(e.userId) THEN e.userId
                      ELSE customerMetadataUserId(e.customer))
    [] e.type \in {"customer.subscription.created", "customer.subscription.updated"}
         -> subscriptionUser(us, e)
    [] e.type = "customer.subscription.deleted"
         -> findOne(us, "stripeSubscriptionId", e.id)
    [] e.type \in {"invoice.payment_succeeded", "invoice.payment_failed"}
         -> IF TruthyId(e.subscription)
            THEN findOne(us, "stripeSubscriptionId", e.subscription)
            ELSE Null
    [] OTHER -> Null

\* Whether the handler of event e, having loaded user, goes on to save.
handlerSaves(e, user) ==
  CASE e.type = "invoice.payment_succeeded" -> user.status # "premium"
    [] e.type = "invoice.payment_failed" -> FALSE
    [] OTHER -> TRUE

\* The webhook route has verified event e and its handler has loaded the
\* user: the handler's modifications are made on the loaded copy.
HandlerLoads(e) ==
  /\ Len(inflight) < 2
  /\ handlerUser(users, e) # Null
  /\ LET u == handlerUser(users, e) IN
       inflight' = Append(inflight,
         [kind |-> "webhook", event |-> e, user |-> u, loaded |-> users[u],
          doc |-> dispatch(users, e, "none")[u], at |-> 0,
          pc |-> IF handlerSaves(e, users[u]) THEN "loaded" ELSE "returned"])
  /\ UNCHANGED <<users, request, fault, before, response, prev, config, streamVars, chatVars>>

\* sync-subscription by caller: protect has loaded req.user and the
\* provider has answered the route's lookups.
SyncLoads(caller) ==
  /\ Len(inflight) < 2
  /\ users[caller].isActive
  /\ \E provider \in ProviderAnswers(users, caller, "none") :
       inflight' = Append(inflight,
         [kind |-> "sync", provider |-> provider, user |-> caller,
          loaded |-> users[caller],
          doc |-> syncSubscription(users, caller, provider, "none")[caller],
          at |-> 0,
          pc |-> IF syncCustomer(users[caller], provider, "none") # <<>>
                 THEN "loaded" ELSE "returned"])
  /\ UNCHANGED <<users, request, fault, before, response, prev, config, streamVars, chatVars>>

\* await user.save() of the handler in slot i; `at` numbers the saves in
\* the order they commit.
HandlerSaves(i, f) ==
  /\ i \in DOMAIN inflight
  /\ inflight[i].pc = "loaded"
  /\ f \in {"none", "db"}
  /\ users' = IF f = "db" THEN users
              ELSE [users EXCEPT ![inflight[i].user] =
                      save(@, inflight[i].loaded, inflight[i].doc)]
  /\ inflight' = [inflight EXCEPT ![i] =
       IF f = "db" THEN [@ EXCEPT !.pc = "failed"]
       ELSE [@ EXCEPT !.pc = "saved", !.at = Cardinality(Saved) + 1]]
  /\ UNCHANGED <<request, fault, before, response, prev, config, streamVars, chatVars>>

\* The documents of user u1 the handlers race on.
InitRace ==
  /\ users \in [Users -> {d \in BillingDocuments : d.isActive /\ d.totalQuestions = 0}]
  /\ users["u2"] = NewUser
  /\ request = NoRequest
  /\ fault = "none"
  /\ before = users
  /\ response = NoResponse
  /\ prev = NoRequest
  /\ webhookSecret = SharedSecret
  /\ clock = 0
  /\ chats = <<>>
  /\ chatsBefore = <<>>
  /\ openai = 0
  /\ freeTierDailyLimit = NotSet
  /\ recordings = [u \in Users |-> 0]
  /\ inflight = <<>>
  /\ res = NoStream
  /\ reader = NoReader
  /\ home = NewHome

NextRace ==
  \/ \E i \in 1..Len(Generated) : HandlerLoads(Generated[i])
  \/ \E caller \in Users : SyncLoads(caller)
  \/ \E i \in 1..2 : \E f \in Faults : HandlerSaves(i, f)

SpecRace == InitRace /\ [][NextRace]_vars

(***************************************************************************)
(* Metered requests of one user in flight together: every request has its *)
(* own req.user, loaded by protect, and its handler awaits the creation of *)
(* the chat, the completion and the save.                                  *)
(***************************************************************************)
\* POST /api/chat/quick by caller, up to the await of the completion:
\* protect has loaded req.user, the gate has passed or not, and the chat
\* is created with the question.
QuickLoads(caller, limited) ==
  /\ Len(inflight) < MaxRequests
  /\ IF gate(users[caller], limited) # 0
     THEN /\ inflight' = Append(inflight,
               [kind |-> "quick", user |-> caller, loaded |-> users[caller],
                chat |-> 0, pc |-> "rejected"])
          /\ UNCHANGED chats
     ELSE /\ Len(chats) < MaxChats
          /\ inflight' = Append(inflight,
               [kind |-> "quick", user |-> caller, loaded |-> users[caller],
                chat |-> Len(chats) + 1, pc |-> "completions.create"])
          /\ chats' = Append(chats, [user |-> caller, isActive |-> TRUE,
                                     messages |-> <<"user">>])
  /\ UNCHANGED <<users, request, fault, before, response, prev, config, streamVars, clock,
                 chatsBefore, openai, recordings>>

\* await openai.chat.completions.create(...) of the request in slot i, and
\* chat.addMessage('assistant', ...).
QuickCompletes(i, f) ==
  /\ i \in DOMAIN inflight
  /\ inflight[i].kind = "quick"
  /\ inflight[i].pc = "completions.create"
  /\ f \in {"none", "openai"}
  /\ inflight' = [inflight EXCEPT ![i].pc =
                    IF f = "openai" THEN "failed" ELSE "incrementQuestionCount"]
  /\ chats' = IF f = "openai" THEN chats
              ELSE [chats EXCEPT ![inflight[i].chat].messages = Append(@, "assistant")]
  /\ UNCHANGED <<users, request, fault, before, response, prev, config, streamVars, clock,
                 chatsBefore, openai, recordings>>

\* await req.user.incrementQuestionCount() of the request in slot i: the
\* counts of the request's own document go up and the document is saved.
QuickSaves(i, f) ==
  /\ i \in DOMAIN inflight
  /\ inflight[i].kind = "quick"
  /\ inflight[i].pc = "incrementQuestionCount"
  /\ f \in {"none", "db"}
  /\ users' = IF f = "db" THEN users
              ELSE [users EXCEPT ![inflight[i].user] =
                      save(@, inflight[i].loaded,
                           incrementQuestionCount(inflight[i].loaded, clock))]
  /\ recordings' = IF f = "db" THEN recordings
                   ELSE [recordings EXCEPT ![inflight[i].user] = @ + 1]
  /\ inflight' = [inflight EXCEPT ![i].pc = IF f = "db" THEN "failed" ELSE "saved"]
  /\ UNCHANGED <<request, fault, before, response, prev, config, streamVars, clock, chats,
                 chatsBefore, openai>>

NextMeter ==
  \/ \E e \in ChatEvents : Webhook(e, "none")
  \/ \E caller \in Users : \E limited \in BOOLEAN : QuickLoads(caller, limited)
  \/ \E i \in 1..MaxRequests : \E f \in Faults : QuickCompletes(i, f)
  \/ \E i \in 1..MaxRequests : \E f \in Faults : QuickSaves(i, f)
  \/ Tick
  \/ Close

SpecMeter == Init /\ [][NextMeter]_vars

(***************************************************************************)
(* The anonymous streaming route, the reader of its stream in the browser  *)
(* and the Home page that counts the visitor's free questions.             *)
(***************************************************************************)
\* The questions a visitor without an account is given.
FREE_MESSAGE_LIMIT == 2

\* chunk.choices[0]?.delta?.content || '' of the chunks the language model
\* streams: pieces of text, or nothing.
Contents == {"", "a", "b"}

\* The events the route writes.
contentEvent(content) == [content |-> content, done |-> FALSE]
doneEvent(fullResponse) == [content |-> "", done |-> TRUE, fullResponse |-> fullResponse]
errorEvent == [error |-> "errorMessage", done |-> TRUE]

\* The pieces of text of a list joined, in order.
RECURSIVE join(_)
join(pieces) ==
  IF pieces = <<>> THEN "" ELSE pieces[1] \o join(Tail(pieces))

\* The text of the content events written.
written(wire) ==
  LET contents == SelectSeq(wire, LAMBDA e : ~e.done)
  IN join([i \in 1..Len(contents) |-> contents[i].content])

\* handleSendMessage(message) of the Home page, up to the await of the
\* stream: nothing while a message is being sent, the signup prompt when the
\* free questions are used up, and otherwise the request is sent.
HandleSendMessage ==
  /\ ~home.sending
  /\ IF home.messageCount >= FREE_MESSAGE_LIMIT
     THEN /\ home' = [home EXCEPT !.showSignupPrompt = TRUE]
          /\ UNCHANGED <<res, reader>>
     ELSE /\ home' = [home EXCEPT !.sending = TRUE, !.error = FALSE]
          /\ reader' = [NoReader EXCEPT !.pc = "fetch"]
          /\ res' = NoStream
  /\ UNCHANGED <<users, request, fault, before, response, prev, config,
                 inflight, chatVars>>

\* POST /api/chat/anonymous up to the await of the completion: chatLimiter,
\* messageValidation, and the headers of the event stream.
Anonymous(limited, valid) ==
  /\ reader.pc = "fetch"
  /\ res.pc = "idle"
  /\ res' = IF limited THEN [res EXCEPT !.pc = "ended", !.status = 429]
            ELSE IF ~valid THEN [res EXCEPT !.pc = "ended", !.status = 400]
            ELSE [res EXCEPT !.pc = "completions.create", !.status = 200]
  /\ UNCHANGED <<users, request, fault, before, response, prev, config,
                 inflight, chatVars, reader, home>>

\* The route that passes a failure of the completion on to the error
\* handler and writes nothing.
CompletionsCreateRethrowing(f) ==
  /\ res.pc = "completions.create"
  /\ f \in {"none", "openai"}
  /\ res' = IF f = "openai"
            THEN [res EXCEPT !.pc = "ended", !.outcome = "failed"]
            ELSE [res EXCEPT !.pc = "streaming"]
  /\ UNCHANGED <<users, request, fault, before, response, prev, config,
                 inflight, chatVars, reader, home>>

\* await openai.chat.completions.create({..., stream: true}); when it
\* rejects, the catch writes the error event and ends the response.
CompletionsCreate(f) ==
  /\ res.pc = "completions.create"
  /\ f \in {"none", "openai"}
  /\ res' = IF f = "openai"
            THEN [res EXCEPT !.pc = "ended", !.outcome = "failed",
                             !.wire = Append(@, errorEvent)]
            ELSE [res EXCEPT !.pc = "streaming"]
  /\ UNCHANGED <<users, request, fault, before, response, prev, config,
                 inflight, chatVars, reader, home>>

\* One turn of `for await (const chunk of stream)`: a chunk with content is
\* written as an event, a chunk without is passed over.
Chunk(content) ==
  /\ res.pc = "streaming"
  /\ Len(res.upstream) < MaxChunks
  /\ res' = [res EXCEPT !.upstream = Append(@, content),
                        !.wire = IF content # "" THEN Append(@, contentEvent(content))
                                 ELSE @]
  /\ UNCHANGED <<users, request, fault, before, response, prev, config,
                 inflight, chatVars, reader, home>>

\* The stream of the language model is over: the final event with the text
\* collected, and the end of the response.
StreamEnds ==
  /\ res.pc = "streaming"
  /\ res' = [res EXCEPT !.pc = "ended", !.outcome = "completed",
                        !.wire = Append(@, doneEvent(join(res.upstream)))]
  /\ UNCHANGED <<users, request, fault, before, response, prev, config,
                 inflight, chatVars, reader, home>>

\* The stream of the language model throws: the catch writes the error
\* event and ends the response.
StreamFails ==
  /\ res.pc = "streaming"
  /\ res' = [res EXCEPT !.pc = "ended", !.outcome = "failed",
                        !.wire = Append(@, errorEvent)]
  /\ UNCHANGED <<users, request, fault, before, response, prev, config,
                 inflight, chatVars, reader, home>>

\* `data: ${JSON.stringify(event)}\n\n`: the line of an event, cut into
\* LineParts pieces, and two newlines.
newline == [part |-> 0]
sse(event) ==
  [k \in 1..LineParts + 2 |->
     IF k <= LineParts THEN [event |-> event, part |-> k] ELSE newline]

\* What the response has sent: the events as written, one after the other.
RECURSIVE bytes(_)
bytes(wire) ==
  IF wire = <<>> THEN <<>> ELSE sse(wire[1]) \o bytes(Tail(wire))

\* chunk.split('\n').
RECURSIVE split(_, _)
split(chunk, line) ==
  IF chunk = <<>> THEN <<line>>
  ELSE IF chunk[1] = newline THEN <<line>> \o split(Tail(chunk), <<>>)
  ELSE split(Tail(chunk), Append(line, chunk[1]))

\* line.startsWith('data: ') and JSON.parse(line.slice(6)): the event of a
\* whole line, as a list of at most one. A line that lacks its beginning
\* does not start with 'data: ', and one that lacks its end does not parse.
parse(line) ==
  IF /\ Len(line) = LineParts
     /\ \A k \in 1..LineParts : line[k].part = k /\ line[k].event = line[1].event
  THEN <<line[1].event>>
  ELSE <<>>

\* The body of the reader's try block for one event, from the locals st:
\* the error of an error event is thrown, and caught by the catch of the
\* same block, which is there for lines that do not parse.
handle(data, st) ==
  IF "error" \in DOMAIN data
  THEN st
  ELSE LET fullResponse == st.fullResponse \o data.content IN
       IF data.done
       THEN [st EXCEPT !.fullResponse = fullResponse,
                       !.pc = "returned",
                       !.result = IF data.fullResponse # "" THEN data.fullResponse
                                  ELSE fullResponse]
       ELSE [st EXCEPT !.fullResponse = fullResponse]

\* `for (const line of lines)`, until the function returns.
RECURSIVE readLines(_, _)
readLines(lines, st) ==
  IF lines = <<>> \/ st.pc = "returned" THEN st
  ELSE readLines(Tail(lines),
                 IF parse(lines[1]) = <<>> THEN st ELSE handle(parse(lines[1])[1], st))

\* await fetch(...): the response has its status; the reader throws when it
\* is not ok.
Fetch ==
  /\ reader.pc = "fetch"
  /\ res.pc # "idle"
  /\ reader' = [reader EXCEPT !.pc = IF res.status = 200 THEN "reading" ELSE "threw"]
  /\ UNCHANGED <<users, request, fault, before, response, prev, config,
                 inflight, chatVars, res, home>>

\* await reader.read() gives the next n of the bytes sent, and the loop
\* body handles them.
Read(n) ==
  /\ reader.pc = "reading"
  /\ n \in 1..Len(bytes(res.wire)) - reader.received
  /\ reader' = readLines(
       split(SubSeq(bytes(res.wire), reader.received + 1, reader.received + n), <<>>),
       [reader EXCEPT !.received = @ + n])
  /\ UNCHANGED <<users, request, fault, before, response, prev, config,
                 inflight, chatVars, res, home>>

\* await reader.read() gives done: the loop is left and the function
\* returns what it has collected.
ReadDone ==
  /\ reader.pc = "reading"
  /\ res.pc = "ended"
  /\ reader.received = Len(bytes(res.wire))
  /\ reader' = [reader EXCEPT !.pc = "returned", !.result = reader.fullResponse]
  /\ UNCHANGED <<users, request, fault, before, response, prev, config,
                 inflight, chatVars, res, home>>

\* handleSendMessage after the await: with a result the message is
\* finalized and the count goes up and is stored; with an exception the
\* error is shown. `answers` counts the results of responses that ended
\* with the final event of a completed stream.
Settle ==
  /\ home.sending
  /\ reader.pc \in {"returned", "threw"}
  /\ home' = IF reader.pc = "threw"
             THEN [home EXCEPT !.sending = FALSE, !.error = TRUE]
             ELSE [home EXCEPT
                     !.sending = FALSE,
                     !.messageCount = @ + 1,
                     !.showSignupPrompt = @ \/ home.messageCount + 1 >= FREE_MESSAGE_LIMIT,
                     !.answers = IF res.outcome = "completed" THEN @ + 1 ELSE @]
  /\ UNCHANGED <<users, request, fault, before, response, prev, config,
                 inflight, chatVars, res, reader>>

NextStream ==
  \/ HandleSendMessage
  \/ \E limited \in BOOLEAN : \E valid \in BOOLEAN : Anonymous(limited, valid)
  \/ \E f \in Faults : CompletionsCreate(f)
  \/ \E content \in Contents : Chunk(content)
  \/ StreamEnds
  \/ StreamFails
  \/ Fetch
  \/ \E n \in 1..(MaxChunks + 1) * (LineParts + 2) : Read(n)
  \/ ReadDone
  \/ Settle

SpecStream == Init /\ [][NextStream]_vars

(***************************************************************************)
(* The quota functions on arbitrary documents: user u1 starts with any     *)
(* entitlement and any usage a history of recorded questions can leave.    *)
(***************************************************************************)
UsageDocuments(now) ==
  {[NewUser EXCEPT !.status = st, !.questionsToday = q, !.lastQuestionDate = d,
                   !.totalQuestions = t, !.currentPeriodEnd = pe] :
     <<st, q, d, t, pe>> \in
       {x \in {"free", "premium", "cancelled"} \X (0..MaxQuestionsToday)
                \X ({NoDate} \cup {NewDate(i) : i \in 0..now})
                \X (0..MaxQuestionsToday + 1)
                \X {NoDate, NewDate(0), NewDate(1000)} :
          /\ x[4] \in {x[2], x[2] + 1}
          /\ x[3] = NoDate <=> x[4] = 0}}

InitQuota ==
  /\ clock \in 0..MaxNow
  /\ users \in [Users -> UsageDocuments(clock)]
  /\ users["u2"] = NewUser
  /\ request = NoRequest
  /\ fault = "none"
  /\ before = users
  /\ response = NoResponse
  /\ prev = NoRequest
  /\ webhookSecret = SharedSecret
  /\ chats = <<>>
  /\ chatsBefore = <<>>
  /\ openai = 0
  /\ freeTierDailyLimit \in DailyLimits
  /\ recordings = [u \in Users |->
                     IF /\ users[u].lastQuestionDate # NoDate
                        /\ isSameDay(users[u].lastQuestionDate, NewDate(clock))
                     THEN users[u].questionsToday ELSE 0]
  /\ inflight = <<>>
  /\ res = NoStream
  /\ reader = NoReader
  /\ home = NewHome

NextQuota ==
  \/ \E caller \in Users : Me(caller)
  \/ Close

SpecQuota == InitQuota /\ [][NextQuota]_vars

\* The metered routes and the quota report on those documents.
NextAdmission ==
  \/ \E caller \in Users : \E limited \in BOOLEAN : \E f \in Faults :
       Quick(caller, limited, f)
  \/ \E caller \in Users : Me(caller)
  \/ Close

SpecAdmission == InitQuota /\ [][NextAdmission]_vars

(***************************************************************************)
(* Properties.                                                             *)
(***************************************************************************)
SubscriptionUpdateTypes ==
  {"customer.subscription.created", "customer.subscription.updated"}

\* The last request was a webhook delivery of an event of one of the types
\* ts, and no call failed while it was handled.
Handled(ts) ==
  /\ request.kind = "webhook"
  /\ request.event.type \in ts
  /\ fault = "none"

\* The entitlement fields of a user document.
Entitlement(user) ==
  <<user.status, user.stripeCustomerId, user.stripeSubscriptionId, user.currentPeriodEnd>>

\* C1: a subscription created/updated event with status active or trialing
\* that resolves to a user leaves that user premium, with the event's
\* subscription id and period end stored, whatever the user was before.
C1_ActiveOrTrialingGivesPremium ==
  (/\ Handled(SubscriptionUpdateTypes)
   /\ request.event.status \in {"active", "trialing"}
   /\ subscriptionUser(before, request.event) # Null)
  => LET u == subscriptionUser(before, request.event) IN
       /\ users[u].status = "premium"
       /\ users[u].stripeSubscriptionId = request.event.id
       /\ users[u].currentPeriodEnd = NewDate(request.event.current_period_end * 1000)

\* C2: a checkout-completed event with the correlation id of an existing
\* user, payment status paid, a subscription and a customer leaves that user
\* premium with the event's subscription and customer ids stored.
C2_PaidCheckoutGivesPremium ==
  (/\ Handled({"checkout.session.completed"})
   /\ request.event.userId \in Users
   /\ request.event.payment_status = "paid"
   /\ request.event.subscription # Null
   /\ request.event.customer # Null)
  => /\ users[request.event.userId].status = "premium"
     /\ users[request.event.userId].stripeSubscriptionId = request.event.subscription
     /\ users[request.event.userId].stripeCustomerId = request.event.customer

\* C2's case: such an event has upgraded a user who was not premium and
\* held neither of the two ids.
C2_Witness ==
  /\ Handled({"checkout.session.completed"})
  /\ request.event.userId \in Users
  /\ request.event.payment_status = "paid"
  /\ request.event.subscription # Null
  /\ before[request.event.userId].status # "premium"
  /\ before[request.event.userId].stripeCustomerId = Null
  /\ before[request.event.userId].stripeSubscriptionId # request.event.subscription
  /\ users[request.event.userId].status = "premium"

\* C3: a checkout-completed event whose payment status is not paid, or that
\* carries no subscription, leaves every user's entitlement as it was.
C3_UnpaidCheckoutChangesNothing ==
  (/\ request.kind = "webhook"
   /\ request.event.type = "checkout.session.completed"
   /\ ~(request.event.payment_status = "paid" /\ request.event.subscription # Null))
  => \A u \in Users : users[u].status = before[u].status

\* C4: a subscription created/updated event that resolves to a user sets
\* the user cancelled when its status is canceled, and free when its status
\* is none of active, trialing, canceled.
C4_CanceledAndOtherStatuses ==
  (/\ Handled(SubscriptionUpdateTypes)
   /\ subscriptionUser(before, request.event) # Null)
  => LET u == subscriptionUser(before, request.event) IN
       /\ request.event.status = "canceled" => users[u].status = "cancelled"
       /\ request.event.status \notin {"active", "trialing", "canceled"}
            => users[u].status = "free"

\* C4's case: a canceled event has taken a premium user to cancelled.
C4_Witness ==
  /\ Handled(SubscriptionUpdateTypes)
  /\ request.event.status = "canceled"
  /\ subscriptionUser(before, request.event) # Null
  /\ before[subscriptionUser(before, request.event)].status = "premium"
  /\ users[subscriptionUser(before, request.event)].status = "cancelled"

C6_PaymentSuccessOnlyUpgradesHolder ==
  (/\ Handled({"invoice.payment_succeeded"})
   /\ request.event.subscription # Null)
  => \A u \in Users :
       users[u] = IF /\ before[u].stripeSubscriptionId = request.event.subscription
                     /\ before[u].status # "premium"
                  THEN [before[u] EXCEPT !.status = "premium"]
                  ELSE before[u]

\* C6's case: the event has upgraded a cancelled holder of S who has a
\* period end stored.
C6_Witness ==
  /\ Handled({"invoice.payment_succeeded"})
  /\ \E u \in Users :
       /\ before[u].stripeSubscriptionId = request.event.subscription
       /\ before[u].status = "cancelled"
       /\ before[u].currentPeriodEnd # NoDate
       /\ users[u].status = "premium"

\* C7: an invoice-payment-failed event changes no field of any user.
C7_PaymentFailedChangesNothing ==
  (/\ request.kind = "webhook"
   /\ request.event.type = "invoice.payment_failed")
  => users = before

\* C7's case: the event was for the subscription of a premium user.
C7_Witness ==
  /\ Handled({"invoice.payment_failed"})
  /\ \E u \in Users :
       /\ before[u].stripeSubscriptionId = request.event.subscription
       /\ before[u].status = "premium"

\* The last request was the second of two deliveries of one event, back to
\* back, and no call failed in either.
DeliveredTwice ==
  /\ request.kind = "webhook"
  /\ prev.kind = "webhook"
  /\ prev.event = request.event
  /\ prev.fault = "none"
  /\ fault = "none"

\* C8: handling an event a second time right after the first leaves every
\* user's status, customer id, subscription id and period end as the first
\* handling left them.
C8_SecondDeliveryIsNoOp ==
  DeliveredTwice => \A u \in Users : Entitlement(users[u]) = Entitlement(before[u])

\* C8's case: an event that upgrades a user and stores a subscription id
\* and a period end has been delivered twice.
C8_Witness ==
  /\ DeliveredTwice
  /\ request.event.type \in SubscriptionUpdateTypes
  /\ request.event.status = "active"
  /\ subscriptionUser(before, request.event) # Null
  /\ users[subscriptionUser(before, request.event)].status = "premium"

\* The last two requests delivered, back to back and without a failed call,
\* a canceled subscription update and then an active update of the same
\* subscription that the provider had generated earlier, both for one user.
StaleActiveAfterCanceled ==
  /\ request.kind = "webhook"
  /\ prev.kind = "webhook"
  /\ prev.fault = "none"
  /\ fault = "none"
  /\ prev.event.type \in SubscriptionUpdateTypes
  /\ request.event.type \in SubscriptionUpdateTypes
  /\ prev.event.status = "canceled"
  /\ request.event.status = "active"
  /\ prev.event.id = request.event.id
  /\ generatedAt(request.event) < generatedAt(prev.event)
  /\ subscriptionUser(before, request.event) # Null
  /\ subscriptionUser(before, request.event) = subscriptionUser(before, prev.event)

\* C9: events apply in arrival order: when the later-generated canceled
\* event is delivered first and the earlier-generated active event after it,
\* the user ends premium.
C9_LastWriteWins ==
  StaleActiveAfterCanceled
  => users[subscriptionUser(before, request.event)].status = "premium"

\* C9's case: the canceled event had left the user cancelled when the stale
\* active event arrived.
C9_Witness ==
  /\ StaleActiveAfterCanceled
  /\ before[subscriptionUser(before, request.event)].status = "cancelled"

\* The users the ids of event e match in collection us: by the event's
\* correlation id (metadata.userId of the event's object or, for a checkout
\* session that has none, of the session's customer at the provider), by
\* the stored customer id, or by the stored subscription id.
MatchedUsers(e, us) ==
  {u \in Users :
     \/ "userId" \in DOMAIN e /\ e.userId = u
     \/ /\ e.type = "checkout.session.completed"
        /\ e.userId = Null
        /\ customerMetadataUserId(e.customer) = u
     \/ "customer" \in DOMAIN e /\ us[u].stripeCustomerId = e.customer
     \/ "id" \in DOMAIN e /\ us[u].stripeSubscriptionId = e.id
     \/ /\ "subscription" \in DOMAIN e
        /\ e.subscription # Null
        /\ us[u].stripeSubscriptionId = e.subscription}

Verified ==
  /\ request.signature.payload = request.event
  /\ request.signature.secret = SharedSecret

\* C11: a webhook request is parsed and dispatched only after its signature
\* has been verified over the raw body against the shared secret: a request
\* whose signature does not verify (a body altered after signing included)
\* is answered 400 and modifies no user.
C11_UnverifiedIsRejected ==
  (/\ request.kind = "webhook"
   /\ "signature" \in DOMAIN request
   /\ ~Verified)
  => /\ response.status = 400
     /\ users = before

\* C12: a verified event of a type that is not supported is answered 200
\* and modifies no user.
C12_UnsupportedTypeIsAcknowledged ==
  (/\ request.kind = "webhook"
   /\ request.event \in UnsupportedEvents)
  => /\ response = [status |-> 200, body |-> "received"]
     /\ users = before

\* C12's case: the event arrived while some user was premium.
C12_Witness ==
  /\ request.kind = "webhook"
  /\ request.event \in UnsupportedEvents
  /\ \E u \in Users : before[u].status = "premium"

\* C13: when a call of the store or of the provider fails while an event is
\* handled, the delivery is answered with a 5xx status rather than 200.
C13_FailureIsAnswered5xx ==
  (/\ request.kind = "webhook"
   /\ fault # "none")
  => response.status >= 500

\* The users the specification resolves event e to in collection us: the
\* user with the event's correlation id and, when that id is absent or is
\* no user's, the users whose stored customer id or subscription id is the
\* event's.
ResolvedUsers(e, us) ==
  IF e.userId \in Users THEN {e.userId}
  ELSE {u \in Users :
          \/ us[u].stripeCustomerId = e.customer
          \/ us[u].stripeSubscriptionId =
                (IF e.type = "checkout.session.completed" THEN e.subscription ELSE e.id)
             /\ us[u].stripeSubscriptionId # Null}

\* C14: an event is resolved to a user first by its correlation id and,
\* whenever that id is absent or resolves to no user, by the stored customer
\* or subscription id; the event's transition is applied to the user so
\* resolved.
C14_ResolvedByIdThenStoredRef ==
  /\ Handled(SubscriptionUpdateTypes)
       => \A u \in Users :
            ResolvedUsers(request.event, before) = {u}
            => users[u] = updateSubscription(before[u], statusOf(request.event.status),
                            [customerId |-> Null, subscriptionId |-> request.event.id,
                             currentPeriodEnd |-> {request.event.current_period_end}])
  /\ (/\ Handled({"checkout.session.completed"})
      /\ request.event.payment_status = "paid"
      /\ request.event.subscription # Null)
       => \A u \in Users :
            ResolvedUsers(request.event, before) = {u}
            => users[u] = updateSubscription(before[u], "premium",
                            [customerId |-> request.event.customer,
                             subscriptionId |-> request.event.subscription,
                             currentPeriodEnd |-> {}])

\* The last request was a sync-subscription that completed without error:
\* no call failed but, possibly, the stripe.customers.retrieve the route
\* recovers from.
Synced ==
  /\ request.kind = "sync"
  /\ fault \in {"none", "retrieve"}
  /\ response.status = 200

\* The customer that request went on with, as a list of at most one.
SyncedCustomer == syncCustomer(before[request.caller], request.provider, fault)

\* The subscription the provider holds for the caller: the active one or,
\* when there is none, the trialing one.
ProviderSubscription ==
  IF request.provider.active # <<>> THEN request.provider.active[1]
  ELSE request.provider.trialing[1]

\* C15: after a sync-subscription for a caller for whom the provider holds
\* an active subscription, or no active but a trialing one, the caller is
\* premium and the stored customer id, subscription id and period end are
\* the provider's, whatever was stored before.
C15_SyncGivesPremium ==
  (/\ Synced
   /\ request.provider.active # <<>> \/ request.provider.trialing # <<>>)
  => /\ users[request.caller].status = "premium"
     /\ users[request.caller].stripeCustomerId = SyncedCustomer[1]
     /\ users[request.caller].stripeSubscriptionId = ProviderSubscription.id
     /\ users[request.caller].currentPeriodEnd
          = NewDate(ProviderSubscription.current_period_end * 1000)

\* C15's case: the provider held only a trialing subscription, and the
\* caller was not premium and had another subscription id and period end
\* stored.
C15_Witness ==
  /\ Synced
  /\ request.provider.active = <<>>
  /\ request.provider.trialing # <<>>
  /\ before[request.caller].status # "premium"
  /\ before[request.caller].stripeSubscriptionId \notin {Null, ProviderSubscription.id}
  /\ before[request.caller].currentPeriodEnd
       \notin {NoDate, NewDate(ProviderSubscription.current_period_end * 1000)}
  /\ users[request.caller].status = "premium"

\* C16: after a sync-subscription that completes without error for a caller
\* for whom the provider holds neither an active nor a trialing
\* subscription, the caller's stored entitlement is free, whatever it was.
C16_SyncWithoutSubscriptionGivesFree ==
  (/\ Synced
   /\ request.provider.active = <<>>
   /\ request.provider.trialing = <<>>)
  => users[request.caller].status = "free"

\* The session of the last verify-session request is the caller's: its
\* correlation id is the caller's id, or its customer is the customer id
\* the caller has stored.
SessionIsCallers ==
  \/ request.session.userId = request.caller
  \/ request.session.customer = before[request.caller].stripeCustomerId

\* C17: verify-session changes the caller's entitlement only if the session
\* is the caller's.
C17_VerifyOnlyOwnSession ==
  (/\ request.kind = "verify"
   /\ ~SessionIsCallers)
  => Entitlement(users[request.caller]) = Entitlement(before[request.caller])

\* C17's case: a caller who is not premium asked for a paid session with a
\* subscription that is another user's, and no call failed.
C17_Witness ==
  /\ request.kind = "verify"
  /\ fault = "none"
  /\ ~SessionIsCallers
  /\ request.session.userId \in Users
  /\ request.session.payment_status = "paid"
  /\ request.session.subscription # <<>>
  /\ before[request.caller].status # "premium"
  /\ response.status = 500

\* C18: when a call of the billing provider fails during a
\* sync-subscription, verify-session or webhook request, every user's
\* stored entitlement is after the request what it was before.
C18_ProviderFailureChangesNothing ==
  (/\ request.kind \in {"sync", "verify", "webhook"}
   /\ fault \in {"provider", "retrieve"})
  => \A u \in Users : users[u].status = before[u].status

\* The last request was made at a metered chat endpoint.
Metered == request.kind \in {"quick", "message"}

C20_PremiumIsUnlimited ==
  (/\ request.kind = "me"
   /\ response.status = 200
   /\ before[request.caller].status = "premium")
  => response.usage = [canAsk |-> TRUE, remaining |-> Infinity, resetTime |-> NoDate]

\* C20's case: the premium user has more questions recorded today than the
\* free tier allows.
C20_Witness ==
  /\ request.kind = "me"
  /\ response.status = 200
  /\ before[request.caller].status = "premium"
  /\ before[request.caller].questionsToday > FREE_TIER_LIMIT(freeTierDailyLimit)
  /\ before[request.caller].lastQuestionDate = NewDate(clock)
  /\ response.usage.remaining = Infinity

\* The last request was GET /api/auth/me by a user who is not premium, and
\* was answered.
QuotaReported ==
  /\ request.kind = "me"
  /\ response.status = 200
  /\ before[request.caller].status # "premium"

\* The daily allowance in force.
Allowance == FREE_TIER_LIMIT(freeTierDailyLimit)

\* max(0, n).
AtLeastZero(n) == IF n > 0 THEN n ELSE 0

\* C21: for a user who is not premium and daily allowance A, canAskQuestion
\* returns allowed and remaining = A when the window start is absent or on
\* another calendar day than today, and otherwise remaining =
\* max(0, A - count) with allowed exactly when remaining > 0.
C21_QuotaOfNonPremium ==
  QuotaReported
  => LET user == before[request.caller]
         usage == response.usage
     IN IF \/ user.lastQuestionDate = NoDate
           \/ dayOf(getTime(user.lastQuestionDate)) # dayOf(clock)
        THEN usage.canAsk /\ usage.remaining = Finite(Allowance)
        ELSE /\ usage.remaining = Finite(AtLeastZero(Allowance - user.questionsToday))
             /\ usage.canAsk <=> Allowance - user.questionsToday > 0

\* C21's case: count 5 dated yesterday with allowance 5 gives (true, 5).
C21_Witness ==
  /\ QuotaReported
  /\ Allowance = 5
  /\ before[request.caller].questionsToday = 5
  /\ before[request.caller].lastQuestionDate # NoDate
  /\ dayOf(getTime(before[request.caller].lastQuestionDate)) = dayOf(clock) - 1
  /\ response.usage.canAsk
  /\ response.usage.remaining = Finite(5)

\* The last request was a metered one that succeeded, so that
\* incrementQuestionCount was called once.
Recorded ==
  /\ Metered
  /\ response.status \in {200, 201}

\* C22: each call of incrementQuestionCount adds 1 to the lifetime count
\* and sets the window start to now; the daily count becomes 1 when the
\* window start was absent or on an earlier day and count + 1 otherwise; so
\* after k recordings on one day the quota check of a user who is not
\* premium reports remaining = max(0, A - k).
C22_RecordingCounts ==
  /\ Recorded
       => users[request.caller] =
            [before[request.caller] EXCEPT
               !.totalQuestions = @ + 1,
               !.lastQuestionDate = NewDate(clock),
               !.questionsToday =
                  IF \/ before[request.caller].lastQuestionDate = NoDate
                     \/ dayOf(getTime(before[request.caller].lastQuestionDate))
                          < dayOf(clock)
                  THEN 1 ELSE @ + 1]
  /\ QuotaReported
       => response.usage.remaining
            = Finite(AtLeastZero(Allowance - recordings[request.caller]))

\* C22's case: the quota of a user with two recordings today, more than the
\* allowance, is reported.
C22_Witness ==
  /\ QuotaReported
  /\ recordings[request.caller] = 2
  /\ Allowance = 1
  /\ response.usage.remaining = Finite(0)

\* C23: when the language-model call of a metered request fails, every
\* user's daily count, window start and lifetime count are after the request
\* what they were before it.
C23_FailedCompletionIsNotCounted ==
  (/\ Metered
   /\ fault = "openai")
  => \A u \in Users :
       /\ users[u].questionsToday = before[u].questionsToday
       /\ users[u].lastQuestionDate = before[u].lastQuestionDate
       /\ users[u].totalQuestions = before[u].totalQuestions

\* C23's case: the completion failed for a caller with a question recorded
\* on an earlier day.
C23_Witness ==
  /\ Metered
  /\ fault = "openai"
  /\ openai = 1
  /\ response.status = 500
  /\ before[request.caller].totalQuestions > 0
  /\ dayOf(getTime(before[request.caller].lastQuestionDate)) < dayOf(clock)

\* C24: in every reachable state a user with a stored subscription id has a
\* stored customer id.
C24_SubscriptionImpliesCustomer ==
  \A u \in Users :
    users[u].stripeSubscriptionId # Null => users[u].stripeCustomerId # Null

\* C25: no request takes a stored customer id away: not a subscription
\* deletion, not a sync that finds no subscription, not the deletion of the
\* account.
C25_CustomerIsNeverCleared ==
  \A u \in Users :
    before[u].stripeCustomerId # Null => users[u].stripeCustomerId # Null

\* C25's case: the subscription of a premium user with a stored customer
\* was deleted.
C25_Witness ==
  /\ request.kind = "webhook"
  /\ request.event.type = "customer.subscription.deleted"
  /\ fault = "none"
  /\ \E u \in Users :
       /\ before[u].stripeSubscriptionId = request.event.id
       /\ before[u].stripeCustomerId # Null
       /\ users[u].stripeSubscriptionId = Null
       /\ users[u].stripeCustomerId = before[u].stripeCustomerId

\* C26: once a user's customer id holds a value, no webhook event,
\* verify-session, sync-subscription or create-checkout-session request
\* changes it to another value.
C26_CustomerIsAssignedOnce ==
  \A u \in Users :
    before[u].stripeCustomerId # Null
      => users[u].stripeCustomerId = before[u].stripeCustomerId

\* C27: the create-checkout-session requests of one user, one after the
\* other or interleaved, make at most one call of stripe.customers.create.
C27_OneCustomerPerUser ==
  \A u \in Users :
    Cardinality({i \in DOMAIN inflight :
                   /\ inflight[i].kind = "checkout"
                   /\ inflight[i].user = u
                   /\ inflight[i].created}) <= 1

\* C28: in every reachable state a premium user has a stored subscription
\* id.
C28_PremiumHasSubscription ==
  \A u \in Users :
    users[u].status = "premium" => users[u].stripeSubscriptionId # Null

\* The last step was a call of updateSubscription that saved.
Updated ==
  /\ request.kind = "update"
  /\ fault = "none"

\* C29: updateSubscription(status, stripeData) sets the status to `status`;
\* it sets the customer id, the subscription id and the period end to the
\* values supplied and keeps each one that is not supplied; the usage
\* counters and the active flag keep their values, and so does every other
\* user.
C29_PartialUpdate ==
  Updated
  => LET old == before[request.user]
         new == users[request.user]
         given == request.stripeData
     IN /\ new.status = request.status
        /\ new.stripeCustomerId =
             IF TruthyId(given.customerId) THEN given.customerId
             ELSE old.stripeCustomerId
        /\ new.stripeSubscriptionId =
             IF TruthyId(given.subscriptionId) THEN given.subscriptionId
             ELSE old.stripeSubscriptionId
        /\ new.currentPeriodEnd =
             IF TruthyNumber(given.currentPeriodEnd)
             THEN {1000 * n : n \in given.currentPeriodEnd}
             ELSE old.currentPeriodEnd
        /\ new.questionsToday = old.questionsToday
        /\ new.lastQuestionDate = old.lastQuestionDate
        /\ new.totalQuestions = old.totalQuestions
        /\ new.isActive = old.isActive
        /\ \A u \in Users \ {request.user} : users[u] = before[u]

\* C29's case: only the customer id was supplied, to a deactivated user
\* with a subscription id, a period end and recorded usage.
C29_Witness ==
  /\ Updated
  /\ request.stripeData = [customerId |-> "cus_9", subscriptionId |-> Null,
                           currentPeriodEnd |-> NotSet]
  /\ before[request.user].status # request.status
  /\ before[request.user].stripeCustomerId = "cus_1"
  /\ users[request.user].stripeCustomerId = "cus_9"
  /\ users[request.user].stripeSubscriptionId = "sub_1"
  /\ users[request.user].currentPeriodEnd = NewDate(1000)
  /\ users[request.user].totalQuestions = 1
  /\ ~users[request.user].isActive

\* Two handlers have loaded, modified and saved the document of one user,
\* the one in slot `first` committing before the one in slot `last`.
Raced(first, last) ==
  /\ {first, last} \subseteq Saved
  /\ inflight[first].user = inflight[last].user
  /\ inflight[first].at < inflight[last].at

\* The fields of a user document that make up the entitlement.
EntitlementFields ==
  {"status", "stripeCustomerId", "stripeSubscriptionId", "currentPeriodEnd"}

PeriodEnds == {NoDate, NewDate(0), NewDate(1000)}

\* C31: the admission at a metered endpoint and the result of
\* canAskQuestion are those of every user that differs from the caller in
\* the period end only.
C31_PeriodEndIsNotEnforced ==
  \A pe \in PeriodEnds :
    /\ Metered
         => LET other == [before[request.caller] EXCEPT !.currentPeriodEnd = pe]
            IN (response.status \in {401, 429, 402})
                 <=> gate(other, request.limited) = response.status
    /\ (request.kind = "me" /\ response.status = 200)
         => LET other == [before[request.caller] EXCEPT !.currentPeriodEnd = pe]
            IN response.usage = canAskQuestion(other, clock, freeTierDailyLimit)

\* C31's case: a premium user whose period end has passed is admitted at a
\* metered endpoint.
C31_Witness ==
  /\ Metered
  /\ before[request.caller].status = "premium"
  /\ before[request.caller].currentPeriodEnd = NewDate(0)
  /\ clock > 0
  /\ response.status = 201

\* The last request bore the token of a user, at a protected endpoint.
Protected ==
  request.kind \in {"me", "new", "quick", "message", "checkout", "delete"}

\* C32: the deletion of an account keeps the user record and changes its
\* active flag only; no request makes a deactivated user active again; and
\* a request at a protected endpoint with the token of a deactivated user
\* is answered 401, calls no completion and changes no user and no chat.
C32_DeactivatedIsRejected ==
  /\ DOMAIN users = Users
  /\ \A u \in Users : ~before[u].isActive => ~users[u].isActive
  /\ (request.kind = "delete" /\ response.status = 200)
       => users = [before EXCEPT ![request.caller].isActive = FALSE]
  /\ (Protected /\ ~before[request.caller].isActive)
       => /\ response.status = 401
          /\ users = before
          /\ chats = chatsBefore
          /\ openai = 0

\* C32's case: a premium user who has deleted the account asks a question
\* with the token, within the rate limit.
C32_Witness ==
  /\ request.kind = "quick"
  /\ ~request.limited
  /\ before[request.caller].status = "premium"
  /\ before[request.caller].stripeSubscriptionId # Null
  /\ ~before[request.caller].isActive
  /\ response.status = 401

\* C33: a verify-session request for a session that is not the caller's,
\* with no failing call, is answered 403 'Session does not belong to this
\* user', which no failure of the billing provider is answered with, and
\* leaves every user as stored.
C33_ForeignSessionIsForbidden ==
  /\ (/\ request.kind = "verify"
      /\ before[request.caller].isActive
      /\ fault = "none"
      /\ ~SessionIsCallers)
       => /\ response.status = 403
          /\ response.body = "Session does not belong to this user"
          /\ users = before
  /\ (request.kind = "verify" /\ fault = "provider")
       => response.status # 403

\* The request before the last, answered back to back with it, was a
\* subscription-deleted event that set user u, premium by that subscription,
\* to free.
DeletionFreed(u) ==
  /\ prev.kind = "webhook"
  /\ prev.event.type = "customer.subscription.deleted"
  /\ prev.before[u].status = "premium"
  /\ prev.before[u].stripeSubscriptionId = prev.event.id
  /\ before[u].status = "free"

\* C34: a verify-session request of a user for the checkout session of a
\* subscription, coming after the subscription-deleted event for that
\* subscription has set the user to free, does not make the user premium.
C34_DeletedSubscriptionGrantsNothing ==
  (/\ request.kind = "verify"
   /\ DeletionFreed(request.caller)
   /\ request.session.subscription # <<>>
   /\ request.session.subscription[1].id = prev.event.id)
  => users[request.caller].status # "premium"

\* The metered requests of user u that were answered 201.
Succeeded(u) ==
  {i \in DOMAIN inflight :
     /\ inflight[i].kind = "quick"
     /\ inflight[i].user = u
     /\ inflight[i].pc = "saved"}

\* C35: a user's lifetime count, which starts at 0, is the number of the
\* user's metered requests that succeeded, however the requests in flight
\* together interleave.
C35_EveryRecordedUnitIsCounted ==
  \A u \in Users : users[u].totalQuestions = Cardinality(Succeeded(u))

\* C36: a subscription-deleted event changes no user whose stored
\* subscription id is not the id of the deleted subscription.
C36_DeletionTouchesItsSubscriptionOnly ==
  (/\ request.kind = "webhook"
   /\ request.event.type = "customer.subscription.deleted")
  => \A u \in Users :
       before[u].stripeSubscriptionId # request.event.id => users[u] = before[u]

\* C36's case: the deletion of an older subscription of a customer arrives
\* when the user is premium by another subscription of the same customer.
C36_Witness ==
  /\ request.kind = "webhook"
  /\ request.event.type = "customer.subscription.deleted"
  /\ fault = "none"
  /\ \E u \in Users :
       /\ before[u].status = "premium"
       /\ before[u].stripeSubscriptionId \in Subscriptions \ {request.event.id}
       /\ before[u].stripeCustomerId = subscriptionCustomer(request.event.id)
       /\ subscriptionCustomer(before[u].stripeSubscriptionId)
            = subscriptionCustomer(request.event.id)
       /\ users[u] = before[u]

\* The events written with done = true.
Terminals == SelectSeq(res.wire, LAMBDA e : e.done)

\* The chunks of the language model that had content, in the order they came.
UpstreamContents == SelectSeq(res.upstream, LAMBDA c : c # "")

\* C37: on a response of the anonymous route that passed validation, the
\* events without done are the language model's chunks with content, in
\* their order; no event with done is written while the response is open;
\* an ended response has exactly one, which is the last thing written; it
\* carries the concatenation of the content events as fullResponse when the
\* stream completed, and an error when the language model failed.
C37_OneTerminalEventLast ==
  res.status = 200 =>
    /\ LET contents == SelectSeq(res.wire, LAMBDA e : ~e.done)
       IN [i \in 1..Len(contents) |-> contents[i].content] = UpstreamContents
    /\ res.pc # "ended" => Terminals = <<>>
    /\ res.pc = "ended" =>
         /\ Len(Terminals) = 1
         /\ res.wire[Len(res.wire)] = Terminals[1]
         /\ res.outcome = "completed" =>
              /\ "error" \notin DOMAIN Terminals[1]
              /\ Terminals[1].fullResponse = written(res.wire)
         /\ res.outcome = "failed" => "error" \in DOMAIN Terminals[1]
         /\ res.outcome \in {"completed", "failed"}

\* C37's case: the stream completed after a chunk with content and one
\* without.
C37_Witness ==
  /\ res.pc = "ended"
  /\ res.outcome = "completed"
  /\ res.upstream = <<"a", "">>
  /\ Len(res.wire) = 2
  /\ res.wire[2].fullResponse = "a"

\* C38: when anonymousMessageStream returns on a response whose stream
\* completed, its fullResponse is the text the route sent, wherever the
\* network reads end.
C38_ReaderReturnsTheTextSent ==
  (/\ reader.pc = "returned"
   /\ res.pc = "ended"
   /\ res.outcome = "completed")
  => reader.result = join(res.upstream)

\* C39: the stored count of the anonymous visitor's messages is the number
\* of answers received and never more than FREE_MESSAGE_LIMIT, and a
\* request whose stream the server ended with an error event leaves the
\* page with an error shown.
C39_ErrorEventConsumesNoQuestion ==
  /\ home.messageCount = home.answers
  /\ home.messageCount <= FREE_MESSAGE_LIMIT
  /\ (/\ ~home.sending
      /\ res.outcome = "failed"
      /\ reader.pc \in {"returned", "threw"})
       => home.error

====
